---- MODULE Spec2Model ----
(***************************************************************************)
(* A model of the gbae ARMv4T core: bit primitives (bitutil.rs), the       *)
(* register file and step loop (system/cpu.rs), the memory bus             *)
(* (system/memory.rs), the decode table (system/instructions/lut.rs) and   *)
(* the operation executors (system/instructions/*.rs).                     *)
(*                                                                         *)
(* A u32 is a pair <<high half, low half>> of 16-bit values: TLC's         *)
(* integers are 32-bit signed, so arithmetic is done on 16-bit limbs.      *)
(* Small fields (register numbers, u8/u16 values) are integers.            *)
(***************************************************************************)
EXTENDS Integers, Sequences, FiniteSets, TLC

VARIABLES
    cpu,    \* the CPU struct (cpu.rs:44-63)
    mem,    \* the Memory struct (memory.rs:88-96, 111-121)
    err,    \* "" while running, else the panic that stopped the thread
    build,  \* the build profile: overflow_checks on (debug) or off (release)
    obs     \* observation of the latest call: its inputs, pre-state and result

vars == <<cpu, mem, err, build, obs>>

\* Let(e, LAMBDA x : body) is body with x naming the value of e
Let(v, Op(_)) == Op(v)

----------------------------------------------------------------------------
(* u32 words as pairs of 16-bit halves *)

\* <<high half, low half>>, both 0..65535
Word == (0..65535) \X (0..65535)

Pow2(n) == 2 ^ n

B2N(b) == IF b THEN 1 ELSE 0

W(hi, lo) == <<hi, lo>>

Hi16(w) == w[1]
Lo16(w) == w[2]

\* bit i of w
Bit(w, i) ==
    IF i < 16 THEN (w[2] \div Pow2(i)) % 2 = 1 ELSE (w[1] \div Pow2(i - 16)) % 2 = 1

\* the value of the len-bit field of w starting at bit i (len <= 30)
FieldVal(w, i, len) ==
    IF i >= 16 THEN (w[1] \div Pow2(i - 16)) % Pow2(len)
    ELSE IF i + len <= 16 THEN (w[2] \div Pow2(i)) % Pow2(len)
    ELSE (w[2] \div Pow2(i)) + ((w[1] % Pow2(i + len - 16)) * Pow2(16 - i))

\* `x as u32` for a small non-negative integer x
U32(x) == W(x \div 65536, x % 65536)

\* `w as u8`, `w as u16`
AsU8(w) == w[2] % 256
AsU16(w) == w[2]

ZERO == W(0, 0)
ONE == W(0, 1)
ALL_ONES == W(65535, 65535)

\* a & b on 16-bit values
RECURSIVE And16(_, _)
And16(a, b) ==
    IF a = 0 \/ b = 0 THEN 0
    ELSE ((a % 2) * (b % 2)) + (2 * And16(a \div 2, b \div 2))

WAnd(a, b) == <<And16(a[1], b[1]), And16(a[2], b[2])>>
WOr(a, b) == <<a[1] + b[1] - And16(a[1], b[1]), a[2] + b[2] - And16(a[2], b[2])>>
WXor(a, b) == <<a[1] + b[1] - 2 * And16(a[1], b[1]), a[2] + b[2] - 2 * And16(a[2], b[2])>>
WNot(a) == <<65535 - a[1], 65535 - a[2]>>

\* a << k and a >> k on u32, for 0 <= k <= 31 (zero for k >= 32)
Shl(a, k) ==
    IF k >= 32 THEN ZERO
    ELSE IF k >= 16 THEN <<(a[2] * Pow2(k - 16)) % 65536, 0>>
    ELSE <<((a[1] * Pow2(k)) % 65536) + (a[2] \div Pow2(16 - k)), (a[2] * Pow2(k)) % 65536>>

Shr(a, k) ==
    IF k >= 32 THEN ZERO
    ELSE IF k >= 16 THEN <<0, a[1] \div Pow2(k - 16)>>
    ELSE <<a[1] \div Pow2(k), (a[2] \div Pow2(k)) + ((a[1] % Pow2(k)) * Pow2(16 - k))>>

\* u32::rotate_right (the amount is taken modulo 32)
RotateRight(a, k) ==
    Let(k % 32, LAMBDA r :
    Let(Shr(a, r), LAMBDA x :
    Let(Shl(a, 32 - r), LAMBDA y :
        IF r = 0 THEN a ELSE <<x[1] + y[1], x[2] + y[2]>>)))

\* u32::wrapping_add / wrapping_sub
WrappingAdd(a, b) ==
    Let(Lo16(a) + Lo16(b), LAMBDA lo :
    Let(Hi16(a) + Hi16(b) + lo \div 65536, LAMBDA hi :
        W(hi % 65536, lo % 65536)))

WrappingSub(a, b) ==
    Let(Lo16(a) - Lo16(b), LAMBDA lo :
    Let(Hi16(a) - Hi16(b) + lo \div 65536, LAMBDA hi :
        W(hi % 65536, lo % 65536)))

\* a < b, a <= b as unsigned integers
ULt(a, b) ==
    \/ Hi16(a) < Hi16(b)
    \/ Hi16(a) = Hi16(b) /\ Lo16(a) < Lo16(b)

ULe(a, b) == a = b \/ ULt(a, b)

----------------------------------------------------------------------------
(* bitutil.rs *)

\* `a << k` and `a >> k` with the amount reduced modulo 32 (what the CPU
\* shift does; a build with overflow checks panics instead when k >= 32)
ShlWrap(a, k) == Shl(a, k % 32)
ShrWrap(a, k) == Shr(a, k % 32)

get_bits32(data, i, len) ==
    Let(WrappingSub(ShlWrap(ONE, len), ONE), LAMBDA mask :
    Let(ShlWrap(mask, i), LAMBDA shifted_mask :
        ShrWrap(WAnd(data, shifted_mask), i)))

\* u16 values are integers 0..65535; for i + len <= 16 the masked and
\* shifted field is this quotient
get_bits16(data, i, len) == (data \div Pow2(i)) % Pow2(len)

set_bits32(data, i, len, value) ==
    Let(ShlWrap(WrappingSub(ShlWrap(ONE, len), ONE), i), LAMBDA mask :
        WOr(WAnd(data, WNot(mask)), WAnd(ShlWrap(value, i), mask)))

get_bit(data, i) ==
    Let(ShlWrap(ONE, i), LAMBDA mask :
        WAnd(data, mask) # ZERO)

get_bit16(data, i) == (data \div Pow2(i)) % 2 # 0

set_bit32(data, i, v) ==
    Let(ShlWrap(ONE, i), LAMBDA mask :
        IF v THEN WOr(data, mask) ELSE WAnd(data, WNot(mask)))

\* (x as i32) >> k
Asr(a, k) ==
    Let(Shr(a, k), LAMBDA x :
    Let(Shl(ALL_ONES, 32 - k), LAMBDA y :
        IF k = 0 \/ ~Bit(a, 31) THEN x
        ELSE IF k >= 32 THEN ALL_ONES
        ELSE <<x[1] + y[1], x[2] + y[2]>>))

sign_extend32(data, data_len) ==
    Let(32 - data_len, LAMBDA shift :
        Asr(ShlWrap(data, shift), shift % 32))

arithmetic_shift_right(data, shift) == Asr(data, shift % 32)

rotate_right_with_extend(c_flag, data) ==
    WOr(Shl(U32(B2N(c_flag)), 31), Shr(data, 1))

\* the high limb of `a as i32 as i64`
SHi16(a) == Hi16(a) - (IF Bit(a, 31) THEN 65536 ELSE 0)

\* The u64 and i64 sums of the source, kept as a 16-bit low limb and a high
\* limb: [lo, hi] for the unsigned and [lo, shi] for the signed result.
add_with_flags_carry(a, b, carry) ==
    Let(Lo16(a) + Lo16(b) + B2N(carry), LAMBDA lo :
    Let(Hi16(a) + Hi16(b) + lo \div 65536, LAMBDA hi :
    Let(SHi16(a) + SHi16(b) + lo \div 65536, LAMBDA shi :
    Let(hi > 65535, LAMBDA unsigned_overflow :
    Let(shi > 32767 \/ shi < -32768, LAMBDA signed_overflow :
        <<W(hi % 65536, lo % 65536), unsigned_overflow, signed_overflow>>)))))

\* sub_with_flags_carry with the signed result taken without the borrow-in
sub_with_flags_carry_unsigned_borrow_only(a, b, carry) ==
    Let(Lo16(a) - Lo16(b) - B2N(carry), LAMBDA lo :
    Let(Hi16(a) - Hi16(b) + lo \div 65536, LAMBDA hi :
    Let(SHi16(a) - SHi16(b) + (Lo16(a) - Lo16(b)) \div 65536, LAMBDA shi :
    Let(hi < 0, LAMBDA unsigned_overflow :
    Let(shi > 32767 \/ shi < -32768, LAMBDA signed_overflow :
        <<W(hi % 65536, lo % 65536), unsigned_overflow, signed_overflow>>)))))

sub_with_flags_carry(a, b, carry) ==
    Let(Lo16(a) - Lo16(b) - B2N(carry), LAMBDA lo :
    Let(Hi16(a) - Hi16(b) + lo \div 65536, LAMBDA hi :
    Let(SHi16(a) - SHi16(b) + lo \div 65536, LAMBDA shi :
    Let(hi < 0, LAMBDA unsigned_overflow :
    Let(shi > 32767 \/ shi < -32768, LAMBDA signed_overflow :
        <<W(hi % 65536, lo % 65536), unsigned_overflow, signed_overflow>>)))))

add_with_flags(a, b) ==
    Let(Lo16(a) + Lo16(b), LAMBDA lo :
    Let(Hi16(a) + Hi16(b) + lo \div 65536, LAMBDA hi :
    Let(SHi16(a) + SHi16(b) + lo \div 65536, LAMBDA shi :
    Let(hi > 65535, LAMBDA unsigned_overflow :
    Let(shi > 32767 \/ shi < -32768, LAMBDA signed_overflow :
        <<W(hi % 65536, lo % 65536), unsigned_overflow, signed_overflow>>)))))

sub_with_flags(a, b) ==
    Let(Lo16(a) - Lo16(b), LAMBDA lo :
    Let(Hi16(a) - Hi16(b) + lo \div 65536, LAMBDA hi :
    Let(SHi16(a) - SHi16(b) + lo \div 65536, LAMBDA shi :
    Let(hi < 0, LAMBDA unsigned_underflow :
    Let(shi > 32767 \/ shi < -32768, LAMBDA signed_overflow :
        <<W(hi % 65536, lo % 65536), unsigned_underflow, signed_overflow>>)))))

----------------------------------------------------------------------------
(* The running machine.  Operators below take and return a record          *)
(*   s = [cpu, mem, err, build, log]                                       *)
(* where err # "" means the thread has panicked (later operations are not  *)
(* run) and log records what the current step did to registers and memory. *)

Panic(s, msg) == [s EXCEPT !.err = msg]

Ok(s) == s.err = ""

\* run F on s unless s has already panicked
Bind(s, F(_)) == IF s.err # "" THEN s ELSE F(s)

EmptyLog ==
    [writes |-> <<>>, stores |-> <<>>, loads |-> <<>>, fetched |-> <<>>,
     fetch |-> [address |-> ZERO, width |-> 0], executed |-> FALSE]

----------------------------------------------------------------------------
(* system/memory.rs *)

WRAM1_LEN == 262144
WRAM2_LEN == 2048
IO_REGISTERS_LEN == 1023
PALETTE_RAM_LEN == 1024
VRAM_LEN == 98304

\* address - start, for an address inside a region that starts at
\* start_hi * 65536 (every region starts on a 64 KiB boundary)
Offset(address, start_hi) == (Hi16(address) - start_hi) * 65536 + Lo16(address)

normal_index(address, start_hi) == Offset(address, start_hi)

wrapping_index(len, address, start_hi) == Offset(address, start_hi) % len

vram_index(address, start_hi) ==
    Let(Offset(address, start_hi) % 131072, LAMBDA a :
        IF a >= VRAM_LEN THEN a - VRAM_LEN ELSE a)

\* The gen_memory! table: the region an address falls in, its index and
\* whether the region is writable; "unmapped" when no row matches.
Region(address) ==
    Let(Hi16(address), LAMBDA hi :
    Let(Lo16(address), LAMBDA lo :
        CASE hi = 0 /\ lo <= 16383 ->
                [region |-> "bios", index |-> normal_index(address, 0), writable |-> FALSE]
          [] hi >= 512 /\ hi <= 767 ->
                [region |-> "wram1", index |-> wrapping_index(WRAM1_LEN, address, 512), writable |-> TRUE]
          [] hi >= 768 /\ hi <= 1023 ->
                [region |-> "wram2", index |-> wrapping_index(WRAM2_LEN, address, 768), writable |-> TRUE]
          [] hi = 1024 /\ lo <= 1022 ->
                [region |-> "io_registers", index |-> normal_index(address, 1024), writable |-> TRUE]
          [] hi >= 1280 /\ hi <= 1535 ->
                [region |-> "palette_ram", index |-> wrapping_index(PALETTE_RAM_LEN, address, 1280), writable |-> TRUE]
          [] hi >= 1536 /\ hi <= 1791 ->
                [region |-> "vram", index |-> vram_index(address, 1536), writable |-> TRUE]
          [] hi >= 2048 /\ hi <= 2559 ->
                [region |-> "game_pak", index |-> normal_index(address, 2048), writable |-> FALSE]
          [] OTHER ->
                [region |-> "unmapped", index |-> 0, writable |-> FALSE]))

\* The length of a region's Vec<u8>.  The two images are sequences of
\* bytes; a RAM region is the function from the indices of its non-zero
\* bytes to those bytes (vec![0; LEN] with the written bytes laid over it).
RegionLen(m, region) ==
    CASE region = "bios" -> Len(m.bios)
      [] region = "game_pak" -> Len(m.game_pak)
      [] region = "wram1" -> WRAM1_LEN
      [] region = "wram2" -> WRAM2_LEN
      [] region = "io_registers" -> IO_REGISTERS_LEN
      [] region = "palette_ram" -> PALETTE_RAM_LEN
      [] region = "vram" -> VRAM_LEN

RegionByte(m, region, index) ==
    CASE region = "bios" -> m.bios[index + 1]
      [] region = "game_pak" -> m.game_pak[index + 1]
      [] OTHER -> IF index \in DOMAIN m[region] THEN m[region][index] ELSE 0

Memory_new(bios, game_pak) ==
    [bios |-> bios, game_pak |-> game_pak,
     wram1 |-> <<>>, wram2 |-> <<>>, io_registers |-> <<>>,
     palette_ram |-> <<>>, vram |-> <<>>]

\* Reads return [err, v]: err is the panic message, "" when the read worked.
_read_u8(m, address) ==
    Let(Region(address), LAMBDA g :
        IF g.region = "unmapped"
        THEN [err |-> "Read from unmapped address", v |-> 0]
        ELSE IF g.index >= RegionLen(m, g.region)
        THEN [err |-> "index out of bounds", v |-> 0]
        ELSE [err |-> "", v |-> RegionByte(m, g.region, g.index)])

read_u8(m, address) == _read_u8(m, address)

read_u16(m, address) ==
    Let(read_u8(m, address), LAMBDA low :
    Let(read_u8(m, WrappingAdd(address, ONE)), LAMBDA high :
        IF low.err # "" THEN low
        ELSE IF high.err # "" THEN high
        ELSE [err |-> "", v |-> high.v * 256 + low.v]))

\* the u32 result is a Word
read_u32(m, address) ==
    Let(read_u16(m, address), LAMBDA low :
    Let(read_u16(m, WrappingAdd(address, U32(2))), LAMBDA high :
        IF low.err # "" THEN [err |-> low.err, v |-> ZERO]
        ELSE IF high.err # "" THEN [err |-> high.err, v |-> ZERO]
        ELSE [err |-> "", v |-> W(high.v, low.v)]))

\* a RAM region with byte `value` at `index`
PutByte(f, index, value) ==
    Let(IF value = 0 THEN DOMAIN f \ {index} ELSE DOMAIN f \cup {index}, LAMBDA dom :
        [i \in dom |-> IF i = index THEN value ELSE f[i]])

\* Writes act on the machine s (its mem and err).
\* _write_u8 with the read-only regions written like the others
_write_u8_over_rom(s, address, value) ==
    Let(Region(address), LAMBDA g :
        IF g.region = "unmapped" THEN Panic(s, "Write to unmapped address")
        ELSE IF g.index >= RegionLen(s.mem, g.region) THEN Panic(s, "index out of bounds")
        ELSE IF ~g.writable THEN [s EXCEPT !.mem[g.region][g.index + 1] = value]
        ELSE [s EXCEPT !.mem[g.region] = PutByte(@, g.index, value)])

_write_u8(s, address, value) ==
    Let(Region(address), LAMBDA g :
        IF g.region = "unmapped" THEN Panic(s, "Write to unmapped address")
        ELSE IF ~g.writable THEN Panic(s, "Write to read-only address")
        ELSE IF g.index >= RegionLen(s.mem, g.region) THEN Panic(s, "index out of bounds")
        ELSE [s EXCEPT !.mem[g.region] = PutByte(@, g.index, value)])

write_u8(s, address, value) ==
    IF Hi16(address) >= 1280 /\ Hi16(address) <= 2047
    THEN Panic(s, "8bit writes into Video Memory are not supported")
    ELSE _write_u8(s, address, value)

write_u16(s, address, value) ==
    Let(_write_u8(s, address, value % 256), LAMBDA s1 :
        IF ~Ok(s1) THEN s1
        ELSE _write_u8(s1, WrappingAdd(address, ONE), value \div 256))

write_u32(s, address, value) ==
    Let(write_u16(s, address, AsU16(value)), LAMBDA s1 :
        IF ~Ok(s1) THEN s1
        ELSE write_u16(s1, WrappingAdd(address, U32(2)), Hi16(value)))

----------------------------------------------------------------------------
(* system/cpu.rs: constants, register file, status bits *)

MODE_USR == 16
MODE_FIQ == 17
MODE_IRQ == 18
MODE_SVC == 19
MODE_ABT == 23
MODE_UND == 27
MODE_SYS == 31

REGISTER_SP == 13
REGISTER_LR == 14
REGISTER_PC == 15

INSTRUCTION_LEN_ARM == 4
INSTRUCTION_LEN_THUMB == 2

ValidModes == {MODE_USR, MODE_FIQ, MODE_IRQ, MODE_SVC, MODE_ABT, MODE_UND, MODE_SYS}

get_mode(c) == AsU8(get_bits32(c.cpsr, 0, 5))
set_mode(c, v) == [c EXCEPT !.cpsr = set_bits32(@, 0, 5, U32(v))]

get_negative_flag(c) == get_bit(c.cpsr, 31)
set_negative_flag(c, v) == [c EXCEPT !.cpsr = set_bit32(@, 31, v)]
get_zero_flag(c) == get_bit(c.cpsr, 30)
set_zero_flag(c, v) == [c EXCEPT !.cpsr = set_bit32(@, 30, v)]
get_carry_flag(c) == get_bit(c.cpsr, 29)
set_carry_flag(c, v) == [c EXCEPT !.cpsr = set_bit32(@, 29, v)]
get_overflow_flag(c) == get_bit(c.cpsr, 28)
set_overflow_flag(c, v) == [c EXCEPT !.cpsr = set_bit32(@, 28, v)]
get_irq_disable(c) == get_bit(c.cpsr, 7)
set_irq_disable(c, v) == [c EXCEPT !.cpsr = set_bit32(@, 7, v)]
get_fiq_disable(c) == get_bit(c.cpsr, 6)
set_fiq_disable(c, v) == [c EXCEPT !.cpsr = set_bit32(@, 6, v)]
get_thumb_state(c) == get_bit(c.cpsr, 5)
set_thumb_state(c, v) == [c EXCEPT !.cpsr = set_bit32(@, 5, v)]

current_mode_has_spsr(c) == get_mode(c) # MODE_USR /\ get_mode(c) # MODE_SYS
in_a_privileged_mode(c) == get_mode(c) # MODE_USR

\* the match with FIQ given the two-register bank of the other modes
Bank_fiq_like_irq(mode) ==
    CASE mode = MODE_USR \/ mode = MODE_SYS -> [name |-> "none", len |-> 0]
      [] mode = MODE_SVC -> [name |-> "r_svc", len |-> 2]
      [] mode = MODE_ABT -> [name |-> "r_abt", len |-> 2]
      [] mode = MODE_UND -> [name |-> "r_und", len |-> 2]
      [] mode = MODE_IRQ -> [name |-> "r_irq", len |-> 2]
      [] mode = MODE_FIQ -> [name |-> "r_fiq", len |-> 2]
      [] OTHER -> [name |-> "panic", len |-> 0]

\* The `match mode` of get_r_in_mode / set_r_in_mode: the name of the banked
\* array and its length; "panic" for a mode that is none of the seven.
Bank(mode) ==
    CASE mode = MODE_USR \/ mode = MODE_SYS -> [name |-> "none", len |-> 0]
      [] mode = MODE_SVC -> [name |-> "r_svc", len |-> 2]
      [] mode = MODE_ABT -> [name |-> "r_abt", len |-> 2]
      [] mode = MODE_UND -> [name |-> "r_und", len |-> 2]
      [] mode = MODE_IRQ -> [name |-> "r_irq", len |-> 2]
      [] mode = MODE_FIQ -> [name |-> "r_fiq", len |-> 7]
      [] OTHER -> [name |-> "panic", len |-> 0]

\* defined for a mode that does not panic
get_r_in_mode(c, r, mode) ==
    Let(Bank(mode), LAMBDA banked_registers :
    Let(15 - banked_registers.len, LAMBDA banked_start :
        IF r >= banked_start /\ r < 15
        THEN c[banked_registers.name][r - banked_start]
        ELSE c.r[r]))

get_r(c, r) == get_r_in_mode(c, r, get_mode(c))

\* set_r_in_mode without `if r == REGISTER_PC { self.branch_happened = true }`
set_r_in_mode_no_branch_flag(s, r, mode, value) ==
    Let(Bank(mode), LAMBDA banked_registers :
    Let(15 - banked_registers.len, LAMBDA banked_start :
        Let(  IF r >= banked_start /\ r < 15
              THEN [s EXCEPT !.cpu[banked_registers.name][r - banked_start] = value]
              ELSE [s EXCEPT !.cpu.r[r] = value], LAMBDA s1 :
        IF banked_registers.name = "panic" THEN Panic(s, "Invalid mode")
        ELSE [s1 EXCEPT !.log.writes = Append(@, [r |-> r, mode |-> mode, value |-> value])])))

set_r_in_mode(s, r, mode, value) ==
    Let(Bank(mode), LAMBDA banked_registers :
    Let(15 - banked_registers.len, LAMBDA banked_start :
        Let(  IF r >= banked_start /\ r < 15
              THEN [s EXCEPT !.cpu[banked_registers.name][r - banked_start] = value]
              ELSE [s EXCEPT !.cpu.r[r] = value], LAMBDA s1 :
    Let([s1 EXCEPT !.log.writes = Append(@, [r |-> r, mode |-> mode, value |-> value])], LAMBDA s2 :
        IF banked_registers.name = "panic" THEN Panic(s, "Invalid mode")
        ELSE IF r = REGISTER_PC THEN [s2 EXCEPT !.cpu.branch_happened = TRUE]
        ELSE s2))))

set_r(s, r, value) == set_r_in_mode(s, r, get_mode(s.cpu), value)

\* get_r / set_r in the current mode panic exactly when the mode is invalid
RegPanics(c) == get_mode(c) \notin ValidModes

SpsrName(mode) ==
    CASE mode = MODE_SVC -> "spsr_svc"
      [] mode = MODE_ABT -> "spsr_abt"
      [] mode = MODE_UND -> "spsr_und"
      [] mode = MODE_IRQ -> "spsr_irq"
      [] mode = MODE_FIQ -> "spsr_fiq"
      [] OTHER -> "panic"

\* defined when SpsrName(get_mode(c)) is not "panic"
get_spsr(c) == c[SpsrName(get_mode(c))]

set_spsr(s, value) ==
    Let(SpsrName(get_mode(s.cpu)), LAMBDA n :
        IF n = "panic" THEN Panic(s, "Invalid mode")
        ELSE [s EXCEPT !.cpu[n] = value])

instruction_len_in_bytes(c) ==
    IF get_thumb_state(c) THEN INSTRUCTION_LEN_THUMB ELSE INSTRUCTION_LEN_ARM

next_instruction_address_from_execution_stage(c) ==
    WrappingSub(c.r[REGISTER_PC], U32(instruction_len_in_bytes(c)))

\* the address one instruction behind PC taken for the current one
curr_instruction_address_one_behind(c) ==
    WrappingSub(c.r[REGISTER_PC], U32(instruction_len_in_bytes(c)))

curr_instruction_address_from_execution_stage(c) ==
    WrappingSub(c.r[REGISTER_PC], U32(instruction_len_in_bytes(c) * 2))

reset(c) ==
    Let(set_mode(c, MODE_SVC), LAMBDA c1 :
    Let(set_thumb_state(c1, FALSE), LAMBDA c2 :
    Let(set_fiq_disable(c2, TRUE), LAMBDA c3 :
    Let(set_irq_disable(c3, TRUE), LAMBDA c4 :
        [c4 EXCEPT !.r[REGISTER_PC] = ZERO]))))

CPU_new ==
    reset([cpsr |-> ZERO,
           r |-> [i \in 0..15 |-> ZERO],
           r_svc |-> [i \in 0..1 |-> ZERO],
           r_abt |-> [i \in 0..1 |-> ZERO],
           r_und |-> [i \in 0..1 |-> ZERO],
           r_irq |-> [i \in 0..1 |-> ZERO],
           r_fiq |-> [i \in 0..6 |-> ZERO],
           spsr_svc |-> ZERO, spsr_abt |-> ZERO, spsr_und |-> ZERO,
           spsr_irq |-> ZERO, spsr_fiq |-> ZERO,
           branch_happened |-> FALSE,
           cycles |-> 0])

----------------------------------------------------------------------------
(* system/instructions/mod.rs: Condition *)

\* Condition::parse; "panic" stands for panic!("Invalid condition")
Condition_parse(cond) ==
    CASE cond = 0 -> "EQ"
      [] cond = 1 -> "NE"
      [] cond = 2 -> "CS"
      [] cond = 3 -> "CC"
      [] cond = 4 -> "MI"
      [] cond = 5 -> "PL"
      [] cond = 6 -> "VS"
      [] cond = 7 -> "VC"
      [] cond = 8 -> "HI"
      [] cond = 9 -> "LS"
      [] cond = 10 -> "GE"
      [] cond = 11 -> "LT"
      [] cond = 12 -> "GT"
      [] cond = 13 -> "LE"
      [] cond = 14 -> "AL"
      [] OTHER -> "panic"

Condition_decode_arm(instruction) == Condition_parse(AsU8(get_bits32(instruction, 28, 4)))

\* check with LS written as !C && Z
Condition_check_ls_and(cond, c) ==
    CASE cond = "EQ" -> get_zero_flag(c)
      [] cond = "NE" -> ~get_zero_flag(c)
      [] cond = "CS" -> get_carry_flag(c)
      [] cond = "CC" -> ~get_carry_flag(c)
      [] cond = "MI" -> get_negative_flag(c)
      [] cond = "PL" -> ~get_negative_flag(c)
      [] cond = "VS" -> get_overflow_flag(c)
      [] cond = "VC" -> ~get_overflow_flag(c)
      [] cond = "HI" -> get_carry_flag(c) /\ ~get_zero_flag(c)
      [] cond = "LS" -> ~get_carry_flag(c) /\ get_zero_flag(c)
      [] cond = "GE" -> get_negative_flag(c) = get_overflow_flag(c)
      [] cond = "LT" -> get_negative_flag(c) # get_overflow_flag(c)
      [] cond = "GT" -> ~get_zero_flag(c) /\ (get_negative_flag(c) = get_overflow_flag(c))
      [] cond = "LE" -> get_zero_flag(c) \/ (get_negative_flag(c) # get_overflow_flag(c))
      [] cond = "AL" -> TRUE

\* check that lets every condition pass
Condition_check_always(cond, c) == TRUE

Condition_check(cond, c) ==
    CASE cond = "EQ" -> get_zero_flag(c)
      [] cond = "NE" -> ~get_zero_flag(c)
      [] cond = "CS" -> get_carry_flag(c)
      [] cond = "CC" -> ~get_carry_flag(c)
      [] cond = "MI" -> get_negative_flag(c)
      [] cond = "PL" -> ~get_negative_flag(c)
      [] cond = "VS" -> get_overflow_flag(c)
      [] cond = "VC" -> ~get_overflow_flag(c)
      [] cond = "HI" -> get_carry_flag(c) /\ ~get_zero_flag(c)
      [] cond = "LS" -> ~get_carry_flag(c) \/ get_zero_flag(c)
      [] cond = "GE" -> get_negative_flag(c) = get_overflow_flag(c)
      [] cond = "LT" -> get_negative_flag(c) # get_overflow_flag(c)
      [] cond = "GT" -> ~get_zero_flag(c) /\ (get_negative_flag(c) = get_overflow_flag(c))
      [] cond = "LE" -> get_zero_flag(c) \/ (get_negative_flag(c) # get_overflow_flag(c))
      [] cond = "AL" -> TRUE

----------------------------------------------------------------------------
(* system/instructions/data_processing.rs *)

\* Option<T>: None is <<>>, Some(x) is <<x>>
None == <<>>
Some(x) == <<x>>

calc_immediate(immed, rotate_imm) == RotateRight(U32(immed), rotate_imm * 2)

ShifterOperand_decode_arm(instruction) ==
    Let(get_bit(instruction, 25), LAMBDA is_immediate :
    Let(AsU8(get_bits32(instruction, 0, 4)), LAMBDA m :
    Let(get_bit(instruction, 4), LAMBDA is_reg_shift :
    Let(AsU8(get_bits32(instruction, 8, 4)), LAMBDA s :
    Let(AsU8(get_bits32(instruction, 5, 2)), LAMBDA shift_type :
    Let(AsU8(get_bits32(instruction, 7, 5)), LAMBDA shift_imm :
        IF is_immediate
        THEN [form |-> "Immediate",
              immed |-> AsU16(get_bits32(instruction, 0, 8)),
              rotate_imm |-> AsU8(get_bits32(instruction, 8, 4))]
        ELSE IF is_reg_shift
        THEN CASE shift_type = 0 -> [form |-> "LogicalShiftLeftRegister", m |-> m, s |-> s]
               [] shift_type = 1 -> [form |-> "LogicalShiftRightRegister", m |-> m, s |-> s]
               [] shift_type = 2 -> [form |-> "ArithmeticShiftRightRegister", m |-> m, s |-> s]
               [] shift_type = 3 -> [form |-> "RotateRightRegister", m |-> m, s |-> s]
        ELSE CASE shift_type = 0 /\ shift_imm = 0 -> [form |-> "Register", m |-> m]
               [] shift_type = 0 /\ shift_imm # 0 -> [form |-> "LogicalShiftLeftImmediate", m |-> m, shift_imm |-> shift_imm]
               [] shift_type = 1 -> [form |-> "LogicalShiftRightImmediate", m |-> m, shift_imm |-> shift_imm]
               [] shift_type = 2 -> [form |-> "ArithmeticShiftRightImmediate", m |-> m, shift_imm |-> shift_imm]
               [] shift_type = 3 /\ shift_imm = 0 -> [form |-> "RotateRightWithExtend", m |-> m]
               [] shift_type = 3 /\ shift_imm # 0 -> [form |-> "RotateRightImmediate", m |-> m, s |-> shift_imm]))))))

SoVal(v, carry) == [err |-> "", v |-> v, carry |-> carry]
SoPanic(msg) == [err |-> msg, v |-> ZERO, carry |-> FALSE]

\* eval with the register shifts taking a shift by 32 as a shift by more
ShifterOperand_eval_32_as_more(so, c) ==
    Let(get_r(c, so.m), LAMBDA r_m :
    Let(get_bit(r_m, 31), LAMBDA r_m_31 :
        CASE so.form # "Immediate" /\ RegPanics(c)
             /\ ~(so.form = "LogicalShiftLeftImmediate" /\ so.shift_imm = 0)
             /\ ~(so.form = "RotateRightImmediate" /\ so.s = 0) ->
                SoPanic("Invalid mode")
          [] so.form = "Immediate" ->
                Let(calc_immediate(so.immed, so.rotate_imm), LAMBDA shifter_operand :
                    Let(     IF so.rotate_imm = 0 THEN get_carry_flag(c)
                             ELSE get_bit(shifter_operand, 31), LAMBDA carry :
                    SoVal(shifter_operand, carry)))
          [] so.form = "Register" -> SoVal(r_m, get_carry_flag(c))
          [] so.form = "LogicalShiftLeftImmediate" ->
                IF so.shift_imm = 0 THEN SoPanic("Should be ShifterOperand::Register")
                ELSE SoVal(Shl(r_m, so.shift_imm), get_bit(r_m, 32 - so.shift_imm))
          [] so.form = "LogicalShiftLeftRegister" ->
                Let(AsU8(get_r(c, so.s)), LAMBDA r_s_lsb :
                    IF r_s_lsb = 0 THEN SoVal(r_m, get_carry_flag(c))
                    ELSE IF r_s_lsb < 32 THEN SoVal(Shl(r_m, r_s_lsb), get_bit(r_m, 32 - r_s_lsb))
                    ELSE IF r_s_lsb = 32 THEN SoVal(ZERO, FALSE)
                    ELSE SoVal(ZERO, FALSE))
          [] so.form = "LogicalShiftRightImmediate" ->
                IF so.shift_imm = 0 THEN SoVal(ZERO, get_bit(r_m, 31))
                ELSE SoVal(Shr(r_m, so.shift_imm), get_bit(r_m, so.shift_imm - 1))
          [] so.form = "LogicalShiftRightRegister" ->
                Let(AsU8(get_r(c, so.s)), LAMBDA r_s_lsb :
                    IF r_s_lsb = 0 THEN SoVal(r_m, get_carry_flag(c))
                    ELSE IF r_s_lsb < 32 THEN SoVal(Shr(r_m, r_s_lsb), get_bit(r_m, r_s_lsb - 1))
                    ELSE IF r_s_lsb = 32 THEN SoVal(ZERO, FALSE)
                    ELSE SoVal(ZERO, FALSE))
          [] so.form = "ArithmeticShiftRightImmediate" ->
                IF so.shift_imm = 0
                THEN (IF ~r_m_31 THEN SoVal(ZERO, r_m_31) ELSE SoVal(ALL_ONES, r_m_31))
                ELSE SoVal(arithmetic_shift_right(r_m, so.shift_imm), get_bit(r_m, so.shift_imm - 1))
          [] so.form = "ArithmeticShiftRightRegister" ->
                Let(AsU8(get_r(c, so.s)), LAMBDA r_s_lsb :
                    IF r_s_lsb = 0 THEN SoVal(r_m, get_carry_flag(c))
                    ELSE IF r_s_lsb < 32
                    THEN SoVal(arithmetic_shift_right(r_m, r_s_lsb), get_bit(r_m, r_s_lsb - 1))
                    ELSE (IF ~r_m_31 THEN SoVal(ZERO, r_m_31) ELSE SoVal(ALL_ONES, r_m_31)))
          [] so.form = "RotateRightImmediate" ->
                IF so.s = 0 THEN SoPanic("Should be ShifterOperand::RotateRightWithExtend")
                ELSE SoVal(RotateRight(r_m, so.s), get_bit(r_m, so.s - 1))
          [] so.form = "RotateRightRegister" ->
                Let(AsU8(WAnd(get_r(c, so.s), U32(255))), LAMBDA r_s_lsb :
                Let(r_s_lsb % 32, LAMBDA r_s_4_0 :
                    IF r_s_lsb = 0 THEN SoVal(r_m, get_carry_flag(c))
                    ELSE IF r_s_4_0 = 0 THEN SoVal(r_m, get_bit(r_m, 31))
                    ELSE SoVal(RotateRight(r_m, r_s_4_0), get_bit(r_m, r_s_4_0 - 1))))
          [] so.form = "RotateRightWithExtend" ->
                SoVal(rotate_right_with_extend(get_carry_flag(c), r_m), get_bit(r_m, 0))))

\* ShifterOperand::eval: [err, v, carry]
ShifterOperand_eval(so, c) ==
    Let(get_r(c, so.m), LAMBDA r_m :
    Let(get_bit(r_m, 31), LAMBDA r_m_31 :
        CASE so.form # "Immediate" /\ RegPanics(c)
             /\ ~(so.form = "LogicalShiftLeftImmediate" /\ so.shift_imm = 0)
             /\ ~(so.form = "RotateRightImmediate" /\ so.s = 0) ->
                SoPanic("Invalid mode")
          [] so.form = "Immediate" ->
                Let(calc_immediate(so.immed, so.rotate_imm), LAMBDA shifter_operand :
                    Let(     IF so.rotate_imm = 0 THEN get_carry_flag(c)
                             ELSE get_bit(shifter_operand, 31), LAMBDA carry :
                    SoVal(shifter_operand, carry)))
          [] so.form = "Register" -> SoVal(r_m, get_carry_flag(c))
          [] so.form = "LogicalShiftLeftImmediate" ->
                IF so.shift_imm = 0 THEN SoPanic("Should be ShifterOperand::Register")
                ELSE SoVal(Shl(r_m, so.shift_imm), get_bit(r_m, 32 - so.shift_imm))
          [] so.form = "LogicalShiftLeftRegister" ->
                Let(AsU8(get_r(c, so.s)), LAMBDA r_s_lsb :
                    IF r_s_lsb = 0 THEN SoVal(r_m, get_carry_flag(c))
                    ELSE IF r_s_lsb < 32 THEN SoVal(Shl(r_m, r_s_lsb), get_bit(r_m, 32 - r_s_lsb))
                    ELSE IF r_s_lsb = 32 THEN SoVal(ZERO, get_bit(r_m, 0))
                    ELSE SoVal(ZERO, FALSE))
          [] so.form = "LogicalShiftRightImmediate" ->
                IF so.shift_imm = 0 THEN SoVal(ZERO, get_bit(r_m, 31))
                ELSE SoVal(Shr(r_m, so.shift_imm), get_bit(r_m, so.shift_imm - 1))
          [] so.form = "LogicalShiftRightRegister" ->
                Let(AsU8(get_r(c, so.s)), LAMBDA r_s_lsb :
                    IF r_s_lsb = 0 THEN SoVal(r_m, get_carry_flag(c))
                    ELSE IF r_s_lsb < 32 THEN SoVal(Shr(r_m, r_s_lsb), get_bit(r_m, r_s_lsb - 1))
                    ELSE IF r_s_lsb = 32 THEN SoVal(ZERO, get_bit(r_m, 31))
                    ELSE SoVal(ZERO, FALSE))
          [] so.form = "ArithmeticShiftRightImmediate" ->
                IF so.shift_imm = 0
                THEN (IF ~r_m_31 THEN SoVal(ZERO, r_m_31) ELSE SoVal(ALL_ONES, r_m_31))
                ELSE SoVal(arithmetic_shift_right(r_m, so.shift_imm), get_bit(r_m, so.shift_imm - 1))
          [] so.form = "ArithmeticShiftRightRegister" ->
                Let(AsU8(get_r(c, so.s)), LAMBDA r_s_lsb :
                    IF r_s_lsb = 0 THEN SoVal(r_m, get_carry_flag(c))
                    ELSE IF r_s_lsb < 32
                    THEN SoVal(arithmetic_shift_right(r_m, r_s_lsb), get_bit(r_m, r_s_lsb - 1))
                    ELSE (IF ~r_m_31 THEN SoVal(ZERO, r_m_31) ELSE SoVal(ALL_ONES, r_m_31)))
          [] so.form = "RotateRightImmediate" ->
                IF so.s = 0 THEN SoPanic("Should be ShifterOperand::RotateRightWithExtend")
                ELSE SoVal(RotateRight(r_m, so.s), get_bit(r_m, so.s - 1))
          [] so.form = "RotateRightRegister" ->
                Let(AsU8(WAnd(get_r(c, so.s), U32(255))), LAMBDA r_s_lsb :
                Let(r_s_lsb % 32, LAMBDA r_s_4_0 :
                    IF r_s_lsb = 0 THEN SoVal(r_m, get_carry_flag(c))
                    ELSE IF r_s_4_0 = 0 THEN SoVal(r_m, get_bit(r_m, 31))
                    ELSE SoVal(RotateRight(r_m, r_s_4_0), get_bit(r_m, r_s_4_0 - 1))))
          [] so.form = "RotateRightWithExtend" ->
                SoVal(rotate_right_with_extend(get_carry_flag(c), r_m), get_bit(r_m, 0))))

DpOp(op, d, n) == [op |-> op, d |-> d, n |-> n]

\* data_processing::decode_arm; Opcode variants without d (or n) carry None
DataProcessing_decode_arm(instruction) ==
    Let(AsU8(get_bits32(instruction, 12, 4)), LAMBDA d :
    Let(AsU8(get_bits32(instruction, 16, 4)), LAMBDA n :
    Let(AsU8(get_bits32(instruction, 21, 4)), LAMBDA code :
        [kind |-> "DataProcessing",
         opcode |-> CASE code = 0 -> DpOp("AND", Some(d), Some(n))
                      [] code = 1 -> DpOp("EOR", Some(d), Some(n))
                      [] code = 2 -> DpOp("SUB", Some(d), Some(n))
                      [] code = 3 -> DpOp("RSB", Some(d), Some(n))
                      [] code = 4 -> DpOp("ADD", Some(d), Some(n))
                      [] code = 5 -> DpOp("ADC", Some(d), Some(n))
                      [] code = 6 -> DpOp("SBC", Some(d), Some(n))
                      [] code = 7 -> DpOp("RSC", Some(d), Some(n))
                      [] code = 8 -> DpOp("TST", None, Some(n))
                      [] code = 9 -> DpOp("TEQ", None, Some(n))
                      [] code = 10 -> DpOp("CMP", None, Some(n))
                      [] code = 11 -> DpOp("CMN", None, Some(n))
                      [] code = 12 -> DpOp("ORR", Some(d), Some(n))
                      [] code = 13 -> DpOp("MOV", Some(d), None)
                      [] code = 14 -> DpOp("BIC", Some(d), Some(n))
                      [] code = 15 -> DpOp("MVN", Some(d), None),
         set_flags |-> get_bit(instruction, 20),
         shifter_operand |-> ShifterOperand_decode_arm(instruction)])))

\* the process_result closure of DataProcessing::execute
process_result(s, set_flags, d, result, carry, overflow) ==
    Let(IF d # None THEN set_r(s, d[1], result) ELSE s, LAMBDA s1 :
    Let(set_negative_flag(s1.cpu, get_bit(result, 31)), LAMBDA c1 :
    Let(set_zero_flag(c1, result = ZERO), LAMBDA c2 :
    Let(set_carry_flag(c2, carry), LAMBDA c3 :
    Let(IF overflow # None THEN set_overflow_flag(c3, overflow[1]) ELSE c3, LAMBDA c4 :
        IF d # None /\ set_flags /\ d[1] = 15 THEN Panic(s, "not yet implemented: d == 15")
        ELSE IF ~Ok(s1) THEN s1
        ELSE IF set_flags THEN [s1 EXCEPT !.cpu = c4]
        ELSE s1)))))

\* the results with CMP handing the borrow itself as the carry
DpCompute_cmp_borrow(op, r_n, shifter_operand, shifter_carry, c_flag) ==
    LET arith(t, neg) == <<t[1], IF neg THEN ~t[2] ELSE t[2], Some(t[3])>>
    IN  CASE op = "AND" -> <<WAnd(r_n, shifter_operand), shifter_carry, None>>
          [] op = "EOR" -> <<WXor(r_n, shifter_operand), shifter_carry, None>>
          [] op = "SUB" -> arith(sub_with_flags(r_n, shifter_operand), TRUE)
          [] op = "RSB" -> arith(sub_with_flags(shifter_operand, r_n), TRUE)
          [] op = "ADD" -> arith(add_with_flags(r_n, shifter_operand), FALSE)
          [] op = "ADC" -> arith(add_with_flags_carry(r_n, shifter_operand, c_flag), FALSE)
          [] op = "SBC" -> arith(sub_with_flags_carry(r_n, shifter_operand, ~c_flag), TRUE)
          [] op = "RSC" -> arith(sub_with_flags_carry(shifter_operand, r_n, ~c_flag), TRUE)
          [] op = "TST" -> <<WAnd(r_n, shifter_operand), shifter_carry, None>>
          [] op = "TEQ" -> <<WXor(r_n, shifter_operand), shifter_carry, None>>
          [] op = "CMP" -> arith(sub_with_flags(r_n, shifter_operand), FALSE)
          [] op = "CMN" -> arith(add_with_flags(r_n, shifter_operand), FALSE)
          [] op = "ORR" -> <<WOr(r_n, shifter_operand), shifter_carry, None>>
          [] op = "MOV" -> <<shifter_operand, shifter_carry, None>>
          [] op = "BIC" -> <<WAnd(r_n, WNot(shifter_operand)), shifter_carry, None>>
          [] op = "MVN" -> <<WNot(shifter_operand), shifter_carry, None>>

\* the (result, carry, overflow) each opcode hands to process_result
DpCompute(op, r_n, shifter_operand, shifter_carry, c_flag) ==
    LET arith(t, neg) == <<t[1], IF neg THEN ~t[2] ELSE t[2], Some(t[3])>>
    IN  CASE op = "AND" -> <<WAnd(r_n, shifter_operand), shifter_carry, None>>
          [] op = "EOR" -> <<WXor(r_n, shifter_operand), shifter_carry, None>>
          [] op = "SUB" -> arith(sub_with_flags(r_n, shifter_operand), TRUE)
          [] op = "RSB" -> arith(sub_with_flags(shifter_operand, r_n), TRUE)
          [] op = "ADD" -> arith(add_with_flags(r_n, shifter_operand), FALSE)
          [] op = "ADC" -> arith(add_with_flags_carry(r_n, shifter_operand, c_flag), FALSE)
          [] op = "SBC" -> arith(sub_with_flags_carry(r_n, shifter_operand, ~c_flag), TRUE)
          [] op = "RSC" -> arith(sub_with_flags_carry(shifter_operand, r_n, ~c_flag), TRUE)
          [] op = "TST" -> <<WAnd(r_n, shifter_operand), shifter_carry, None>>
          [] op = "TEQ" -> <<WXor(r_n, shifter_operand), shifter_carry, None>>
          [] op = "CMP" -> arith(sub_with_flags(r_n, shifter_operand), TRUE)
          [] op = "CMN" -> arith(add_with_flags(r_n, shifter_operand), FALSE)
          [] op = "ORR" -> <<WOr(r_n, shifter_operand), shifter_carry, None>>
          [] op = "MOV" -> <<shifter_operand, shifter_carry, None>>
          [] op = "BIC" -> <<WAnd(r_n, WNot(shifter_operand)), shifter_carry, None>>
          [] op = "MVN" -> <<WNot(shifter_operand), shifter_carry, None>>

DataProcessing_execute(ins, s) ==
    Let(ShifterOperand_eval(ins.shifter_operand, s.cpu), LAMBDA so :
    Let(ins.opcode, LAMBDA opc :
    Let(IF opc.n # None THEN get_r(s.cpu, opc.n[1]) ELSE ZERO, LAMBDA r_n :
    Let(DpCompute(opc.op, r_n, so.v, so.carry, get_carry_flag(s.cpu)), LAMBDA t :
        IF so.err # "" THEN Panic(s, so.err)
        ELSE IF opc.n # None /\ RegPanics(s.cpu) THEN Panic(s, "Invalid mode")
        ELSE process_result(s, ins.set_flags, opc.d, t[1], t[2], t[3])))))

----------------------------------------------------------------------------
(* system/instructions/branch.rs *)

decode_b_arm(instruction) ==
    Let(get_bits32(instruction, 0, 24), LAMBDA signed_immed_24 :
        Let(      WrappingAdd(ShlWrap(sign_extend32(signed_immed_24, 24), 2),
                              U32(INSTRUCTION_LEN_ARM * 2)), LAMBDA offset :
        [kind |-> "Branch", variant |-> "BOffset", l |-> FALSE, x |-> FALSE, offset |-> offset]))

decode_bl_arm(instruction) ==
    Let(get_bits32(instruction, 0, 24), LAMBDA signed_immed_24 :
        Let(      WrappingAdd(ShlWrap(sign_extend32(signed_immed_24, 24), 2),
                              U32(INSTRUCTION_LEN_ARM * 2)), LAMBDA offset :
        [kind |-> "Branch", variant |-> "BOffset", l |-> TRUE, x |-> FALSE, offset |-> offset]))

decode_bx_arm(instruction) ==
    [kind |-> "Branch", variant |-> "BRegister", l |-> FALSE, x |-> TRUE,
     m |-> AsU8(get_bits32(instruction, 0, 4))]

decode_blx_arm(instruction) ==
    [kind |-> "Branch", variant |-> "BRegister", l |-> TRUE, x |-> TRUE,
     m |-> AsU8(get_bits32(instruction, 0, 4))]

DecodePanic(msg) == [kind |-> "panic", msg |-> msg]

decode_branch_exchange_thumb(instruction, next_instruction) ==
    Let(get_bit16(instruction, 7), LAMBDA l :
        IF l THEN DecodePanic("BLX (2) not implemented")
        ELSE [kind |-> "Branch", variant |-> "BRegister", l |-> l, x |-> TRUE,
              m |-> get_bits16(instruction, 3, 4)])

decode_bl_thumb(instruction, next_instruction) ==
    Let(ShlWrap(sign_extend32(U32(get_bits16(instruction, 0, 11)), 11), 12), LAMBDA hi :
    Let(U32(get_bits16(next_instruction, 0, 11) * 2), LAMBDA lo :
    Let(WrappingAdd(WrappingAdd(hi, U32(INSTRUCTION_LEN_THUMB * 2)), lo), LAMBDA offset :
        IF get_bits16(instruction, 11, 2) # 2 \/ get_bits16(next_instruction, 11, 2) # 3
        THEN DecodePanic("assertion failed: left == right")
        ELSE [kind |-> "Branch", variant |-> "BLThumb", offset |-> offset])))

decode_conditional_branch_thumb(instruction, next_instruction) ==
    Let(get_bits16(instruction, 0, 8), LAMBDA signed_immed_8 :
        Let(      WrappingAdd(ShlWrap(sign_extend32(U32(signed_immed_8), 8), 1),
                              U32(INSTRUCTION_LEN_THUMB * 2)), LAMBDA offset :
    Let(Condition_parse(get_bits16(instruction, 8, 4)), LAMBDA cond :
        IF cond = "panic" THEN DecodePanic("Invalid condition")
        ELSE [kind |-> "Branch", variant |-> "BCondThumb", cond |-> cond, offset |-> offset])))

decode_unconditional_branch_thumb(instruction, next_instruction) ==
    Let(get_bits16(instruction, 0, 11), LAMBDA signed_immed_11 :
        Let(      WrappingAdd(ShlWrap(sign_extend32(U32(signed_immed_11), 11), 1),
                              U32(INSTRUCTION_LEN_THUMB * 2)), LAMBDA offset :
        [kind |-> "Branch", variant |-> "BOffset", l |-> FALSE, x |-> FALSE, offset |-> offset]))

\* a + b on u32: [ovf, v]; a build with overflow checks panics when ovf
CheckedAdd(a, b) == [ovf |-> add_with_flags(a, b)[2], v |-> WrappingAdd(a, b)]
CheckedSub(a, b) == [ovf |-> ULt(a, b), v |-> WrappingSub(a, b)]

OverflowPanic(s, what) == Panic(s, "attempt to " \o what \o " with overflow")

\* execute with BRegister writing r_m to PC as it is
Branch_execute_keeps_bit_0(ins, s) ==
    CASE ins.variant = "BOffset" ->
                Let(  IF ins.l
                      THEN set_r(s, REGISTER_LR, next_instruction_address_from_execution_stage(s.cpu))
                      ELSE s, LAMBDA s1 :
            Let(IF ins.x THEN [s1 EXCEPT !.cpu = set_thumb_state(@, TRUE)] ELSE s1, LAMBDA s2 :
                IF ~Ok(s1) THEN s1
                ELSE set_r(s2, REGISTER_PC,
                           WrappingAdd(curr_instruction_address_from_execution_stage(s2.cpu), ins.offset))))
      [] ins.variant = "BRegister" ->
                Let(  IF ins.l
                      THEN set_r(s, REGISTER_LR, next_instruction_address_from_execution_stage(s.cpu))
                      ELSE s, LAMBDA s1 :
            Let(get_r(s1.cpu, ins.m), LAMBDA r_m :
            Let(IF ins.x THEN [s1 EXCEPT !.cpu = set_thumb_state(@, get_bit(r_m, 0))] ELSE s1, LAMBDA s2 :
                IF RegPanics(s.cpu) THEN Panic(s, "Invalid mode")
                ELSE set_r(s2, REGISTER_PC, r_m))))
      [] ins.variant = "BCondThumb" ->
            IF Condition_check(ins.cond, s.cpu)
            THEN set_r(s, REGISTER_PC,
                       WrappingAdd(curr_instruction_address_from_execution_stage(s.cpu), ins.offset))
            ELSE s
      [] ins.variant = "BLThumb" ->
                Let(  CheckedAdd(next_instruction_address_from_execution_stage(s.cpu),
                                 U32(instruction_len_in_bytes(s.cpu))), LAMBDA lr :
            Let(set_r(s, REGISTER_LR, WOr(lr.v, ONE)), LAMBDA s1 :
                IF lr.ovf /\ s.build.debug THEN OverflowPanic(s, "add")
                ELSE IF ~Ok(s1) THEN s1
                ELSE set_r(s1, REGISTER_PC,
                           WrappingAdd(curr_instruction_address_from_execution_stage(s1.cpu), ins.offset))))

Branch_execute(ins, s) ==
    CASE ins.variant = "BOffset" ->
                Let(  IF ins.l
                      THEN set_r(s, REGISTER_LR, next_instruction_address_from_execution_stage(s.cpu))
                      ELSE s, LAMBDA s1 :
            Let(IF ins.x THEN [s1 EXCEPT !.cpu = set_thumb_state(@, TRUE)] ELSE s1, LAMBDA s2 :
                IF ~Ok(s1) THEN s1
                ELSE set_r(s2, REGISTER_PC,
                           WrappingAdd(curr_instruction_address_from_execution_stage(s2.cpu), ins.offset))))
      [] ins.variant = "BRegister" ->
                Let(  IF ins.l
                      THEN set_r(s, REGISTER_LR, next_instruction_address_from_execution_stage(s.cpu))
                      ELSE s, LAMBDA s1 :
            Let(get_r(s1.cpu, ins.m), LAMBDA r_m :
            Let(IF ins.x THEN [s1 EXCEPT !.cpu = set_thumb_state(@, get_bit(r_m, 0))] ELSE s1, LAMBDA s2 :
                IF RegPanics(s.cpu) THEN Panic(s, "Invalid mode")
                ELSE set_r(s2, REGISTER_PC, WAnd(r_m, W(65535, 65534))))))
      [] ins.variant = "BCondThumb" ->
            IF Condition_check(ins.cond, s.cpu)
            THEN set_r(s, REGISTER_PC,
                       WrappingAdd(curr_instruction_address_from_execution_stage(s.cpu), ins.offset))
            ELSE s
      [] ins.variant = "BLThumb" ->
                Let(  CheckedAdd(next_instruction_address_from_execution_stage(s.cpu),
                                 U32(instruction_len_in_bytes(s.cpu))), LAMBDA lr :
            Let(set_r(s, REGISTER_LR, WOr(lr.v, ONE)), LAMBDA s1 :
                IF lr.ovf /\ s.build.debug THEN OverflowPanic(s, "add")
                ELSE IF ~Ok(s1) THEN s1
                ELSE set_r(s1, REGISTER_PC,
                           WrappingAdd(curr_instruction_address_from_execution_stage(s1.cpu), ins.offset))))

----------------------------------------------------------------------------
(* system/instructions/load_store_multiple.rs *)

LoadStoreMultiple_decode_arm(instruction) ==
    Let(AsU16(get_bits32(instruction, 0, 16)), LAMBDA registers :
    Let(AsU8(get_bits32(instruction, 16, 4)), LAMBDA n :
    Let(get_bit(instruction, 20), LAMBDA l :
    Let(get_bit(instruction, 21), LAMBDA w :
    Let(get_bit(instruction, 22), LAMBDA sbit :
    Let(AsU8(get_bits32(instruction, 23, 2)), LAMBDA pu :
        [kind |-> "LoadStoreMultiple",
         opcode |-> IF l THEN "LDM" ELSE "STM",
         addressing_mode |->
            [n |-> n, w |-> w, registers |-> registers,
             typ |-> CASE pu = 0 -> "DecrementAfter"
                       [] pu = 1 -> "IncrementAfter"
                       [] pu = 2 -> "DecrementBefore"
                       [] pu = 3 -> "IncrementBefore"],
         s |-> sbit]))))))

\* (x << k) as u16
Shl16(v, k) == (v * Pow2(k)) % 65536

\* a | b for u16 values whose set bits do not overlap is a + b; here b is a
\* single bit, so test it
BitOr16(a, bitpos, bitval) ==
    IF bitval = 0 \/ get_bit16(a, bitpos) THEN a ELSE a + Pow2(bitpos)

decode_push_thumb(instruction, next_instruction) ==
    Let(get_bits16(instruction, 8, 1), LAMBDA is_lr :
        Let(         BitOr16(get_bits16(instruction, 0, 8), REGISTER_LR,
                             Shl16(is_lr, REGISTER_LR)), LAMBDA registers :
        [kind |-> "LoadStoreMultiple",
         opcode |-> "STM",
         addressing_mode |-> [n |-> REGISTER_SP, w |-> TRUE, registers |-> registers,
                              typ |-> "DecrementBefore"],
         s |-> FALSE]))

decode_pop_thumb(instruction, next_instruction) ==
    Let(get_bits16(instruction, 8, 1), LAMBDA is_pc :
        Let(         BitOr16(get_bits16(instruction, 0, 8), REGISTER_PC,
                             Shl16(is_pc, REGISTER_PC)), LAMBDA registers :
        [kind |-> "LoadStoreMultiple",
         opcode |-> "LDM",
         addressing_mode |-> [n |-> REGISTER_SP, w |-> TRUE, registers |-> registers,
                              typ |-> "IncrementAfter"],
         s |-> FALSE]))

\* u16::count_ones
RECURSIVE count_ones(_)
count_ones(v) == IF v = 0 THEN 0 ELSE (v % 2) + count_ones(v \div 2)

\* A chain of checked u32 additions and subtractions evaluated left to
\* right: steps is a sequence of <<"+", k>> and <<"-", k>>.  [ovf, what, v].
RECURSIVE Chain(_, _)
Chain(a, steps) ==
    IF steps = <<>> THEN [ovf |-> FALSE, what |-> "", v |-> a]
    ELSE Let(Head(steps), LAMBDA st :
         Let(IF st[1] = "+" THEN CheckedAdd(a, U32(st[2])) ELSE CheckedSub(a, U32(st[2])), LAMBDA r :
         Let(Chain(r.v, Tail(steps)), LAMBDA rest :
             IF r.ovf
             THEN [ovf |-> TRUE, what |-> IF st[1] = "+" THEN "add" ELSE "subtract", v |-> rest.v]
             ELSE rest)))

\* AddressingMode::execute: the machine after the optional write-back, with
\* the pair in start_address / end_address
\* AddressingMode::execute with the IncrementBefore end_address one word short
AddressingMode_execute_end_before_last(am, s) ==
    Let(get_r(s.cpu, am.n), LAMBDA r_n :
    Let(count_ones(am.registers) * 4, LAMBDA k4 :
        Let(
            CASE am.typ = "DecrementAfter" -> Chain(r_n, <<<<"-", k4>>, <<"+", 4>>>>)
              [] am.typ = "IncrementAfter" -> Chain(r_n, <<>>)
              [] am.typ = "DecrementBefore" -> Chain(r_n, <<<<"-", k4>>>>)
              [] am.typ = "IncrementBefore" -> Chain(r_n, <<<<"+", 4>>>>), LAMBDA start_address :
        Let(
            CASE am.typ = "DecrementAfter" -> Chain(r_n, <<>>)
              [] am.typ = "IncrementAfter" -> Chain(r_n, <<<<"+", k4>>, <<"-", 4>>>>)
              [] am.typ = "DecrementBefore" -> Chain(r_n, <<<<"-", 4>>>>)
              [] am.typ = "IncrementBefore" -> Chain(r_n, <<<<"+", k4>>, <<"-", 4>>>>), LAMBDA end_address :
        Let(
            CASE am.typ = "DecrementAfter" -> Chain(r_n, <<<<"-", k4>>>>)
              [] am.typ = "IncrementAfter" -> Chain(r_n, <<<<"+", k4>>>>)
              [] am.typ = "DecrementBefore" -> Chain(r_n, <<<<"-", k4>>>>)
              [] am.typ = "IncrementBefore" -> Chain(r_n, <<<<"+", k4>>>>), LAMBDA written :
    Let(IF am.w THEN set_r(s, am.n, written.v) ELSE s, LAMBDA s1 :
    LET out(t) == [s |-> t, start_address |-> start_address.v, end_address |-> end_address.v]
    IN  IF RegPanics(s.cpu) THEN out(Panic(s, "Invalid mode"))
        ELSE IF s.build.debug /\ start_address.ovf THEN out(OverflowPanic(s, start_address.what))
        ELSE IF s.build.debug /\ end_address.ovf THEN out(OverflowPanic(s, end_address.what))
        ELSE IF s.build.debug /\ am.w /\ written.ovf THEN out(OverflowPanic(s, written.what))
        ELSE out(s1)))))))

AddressingMode_execute(am, s) ==
    Let(get_r(s.cpu, am.n), LAMBDA r_n :
    Let(count_ones(am.registers) * 4, LAMBDA k4 :
        Let(
            CASE am.typ = "DecrementAfter" -> Chain(r_n, <<<<"-", k4>>, <<"+", 4>>>>)
              [] am.typ = "IncrementAfter" -> Chain(r_n, <<>>)
              [] am.typ = "DecrementBefore" -> Chain(r_n, <<<<"-", k4>>>>)
              [] am.typ = "IncrementBefore" -> Chain(r_n, <<<<"+", 4>>>>), LAMBDA start_address :
        Let(
            CASE am.typ = "DecrementAfter" -> Chain(r_n, <<>>)
              [] am.typ = "IncrementAfter" -> Chain(r_n, <<<<"+", k4>>, <<"-", 4>>>>)
              [] am.typ = "DecrementBefore" -> Chain(r_n, <<<<"-", 4>>>>)
              [] am.typ = "IncrementBefore" -> Chain(r_n, <<<<"+", k4>>>>), LAMBDA end_address :
        Let(
            CASE am.typ = "DecrementAfter" -> Chain(r_n, <<<<"-", k4>>>>)
              [] am.typ = "IncrementAfter" -> Chain(r_n, <<<<"+", k4>>>>)
              [] am.typ = "DecrementBefore" -> Chain(r_n, <<<<"-", k4>>>>)
              [] am.typ = "IncrementBefore" -> Chain(r_n, <<<<"+", k4>>>>), LAMBDA written :
    Let(IF am.w THEN set_r(s, am.n, written.v) ELSE s, LAMBDA s1 :
    LET out(t) == [s |-> t, start_address |-> start_address.v, end_address |-> end_address.v]
    IN  IF RegPanics(s.cpu) THEN out(Panic(s, "Invalid mode"))
        ELSE IF s.build.debug /\ start_address.ovf THEN out(OverflowPanic(s, start_address.what))
        ELSE IF s.build.debug /\ end_address.ovf THEN out(OverflowPanic(s, end_address.what))
        ELSE IF s.build.debug /\ am.w /\ written.ovf THEN out(OverflowPanic(s, written.what))
        ELSE out(s1)))))))

\* The `for i in 0..=15` loops of LoadStoreMultiple::execute from register i
\* on: [s, address] after the loop (or at the panic).
RECURSIVE LdmLoop(_, _, _, _, _)
LdmLoop(s, registers, cpu_mode, address, i) ==
    IF i > 15 \/ ~Ok(s) THEN [s |-> s, address |-> address]
    ELSE IF ~get_bit16(registers, i) THEN LdmLoop(s, registers, cpu_mode, address, i + 1)
    ELSE Let(read_u32(s.mem, address), LAMBDA rd :
         Let(set_r_in_mode(s, i, cpu_mode, rd.v), LAMBDA s1 :
         Let([s1 EXCEPT !.log.loads = Append(@, [r |-> i, address |-> address, value |-> rd.v])], LAMBDA s2 :
         Let(CheckedAdd(address, U32(4)), LAMBDA nxt :
             IF rd.err # "" THEN [s |-> Panic(s, rd.err), address |-> address]
             ELSE IF ~Ok(s1) THEN [s |-> s1, address |-> address]
             ELSE IF s.build.debug /\ nxt.ovf THEN [s |-> OverflowPanic(s2, "add"), address |-> address]
             ELSE LdmLoop(s2, registers, cpu_mode, nxt.v, i + 1)))))

RECURSIVE StmLoop(_, _, _, _, _)
StmLoop(s, registers, cpu_mode, address, i) ==
    IF i > 15 \/ ~Ok(s) THEN [s |-> s, address |-> address]
    ELSE IF ~get_bit16(registers, i) THEN StmLoop(s, registers, cpu_mode, address, i + 1)
    ELSE Let(get_r_in_mode(s.cpu, i, cpu_mode), LAMBDA value :
         Let(write_u32(s, address, value), LAMBDA s1 :
         Let([s1 EXCEPT !.log.stores = Append(@, [r |-> i, address |-> address, value |-> value])], LAMBDA s2 :
         Let(CheckedAdd(address, U32(4)), LAMBDA nxt :
             IF Bank(cpu_mode).name = "panic" THEN [s |-> Panic(s, "Invalid mode"), address |-> address]
             ELSE IF ~Ok(s1) THEN [s |-> s1, address |-> address]
             ELSE IF s.build.debug /\ nxt.ovf THEN [s |-> OverflowPanic(s2, "add"), address |-> address]
             ELSE StmLoop(s2, registers, cpu_mode, nxt.v, i + 1)))))

LoadStoreMultiple_execute(ins, s) ==
    Let(ins.addressing_mode.registers, LAMBDA registers :
    Let(AddressingMode_execute(ins.addressing_mode, s), LAMBDA am :
    Let(IF ins.s THEN MODE_USR ELSE get_mode(am.s.cpu), LAMBDA cpu_mode :
        Let(    IF ins.opcode = "LDM"
                THEN IF get_bit16(registers, 15)
                     THEN [s |-> Panic(am.s, "not yet implemented: ldm with destination register 15 not implemented"),
                           address |-> am.start_address]
                     ELSE LdmLoop(am.s, registers, cpu_mode, am.start_address, 0)
                ELSE StmLoop(am.s, registers, cpu_mode, am.start_address, 0), LAMBDA done :
    Let(CheckedSub(done.address, U32(4)), LAMBDA last :
        IF ~Ok(am.s) THEN am.s
        ELSE IF ~Ok(done.s) THEN done.s
        ELSE IF s.build.debug /\ last.ovf THEN OverflowPanic(done.s, "subtract")
        ELSE IF am.end_address # last.v THEN Panic(done.s, "assertion failed: left == right")
        ELSE done.s)))))

----------------------------------------------------------------------------
(* system/instructions/ctrl_ext.rs *)

UNALLOC_MASK == W(4095, 65280)
USER_MASK == W(61440, 0)
PRIV_MASK == W(0, 15)
STATE_MASK == W(0, 32)

mrs_decode_arm(instruction) ==
    [kind |-> "Mrs", d |-> AsU8(get_bits32(instruction, 12, 4)), r |-> get_bit(instruction, 22)]

Mrs_execute(ins, s) ==
    IF ins.r
    THEN IF SpsrName(get_mode(s.cpu)) = "panic" THEN Panic(s, "Invalid mode")
         ELSE set_r(s, ins.d, get_spsr(s.cpu))
    ELSE set_r(s, ins.d, s.cpu.cpsr)

\* msr::decode_arm takes the build: debug_assert_eq! is compiled only with
\* debug assertions
msr_decode_arm(instruction, debug) ==
    Let(get_bit(instruction, 25), LAMBDA is_immediate :
        IF debug /\ AsU8(get_bits32(instruction, 12, 4)) # 15
        THEN DecodePanic("assertion failed: left == right")
        ELSE [kind |-> "Msr",
              mode |-> IF is_immediate
                       THEN [operand |-> "Immediate",
                             imm |-> RotateRight(get_bits32(instruction, 0, 8),
                                                 AsU8(get_bits32(instruction, 8, 4)))]
                       ELSE [operand |-> "Register", m |-> AsU8(get_bits32(instruction, 0, 4))],
              field_mask |-> AsU8(get_bits32(instruction, 16, 4)),
              r |-> get_bit(instruction, 22)])

\* the `for i in 0..4` loop building the byte-lane mask
FieldMask(field_mask) ==
    W(B2N(get_bit16(field_mask, 2)) * 255 + B2N(get_bit16(field_mask, 3)) * 65280,
      B2N(get_bit16(field_mask, 0)) * 255 + B2N(get_bit16(field_mask, 1)) * 65280)

\* Msr::execute with the privileged mask in every mode
Msr_execute_user_as_privileged(ins, s) ==
    Let(IF ins.mode.operand = "Immediate" THEN ins.mode.imm
        ELSE get_r(s.cpu, ins.mode.m), LAMBDA operand :
    Let(FieldMask(ins.field_mask), LAMBDA mask :
    Let(WAnd(mask, WOr(USER_MASK, PRIV_MASK)), LAMBDA mask_c :
    Let(WAnd(mask, WOr(WOr(USER_MASK, PRIV_MASK), STATE_MASK)), LAMBDA mask_s :
        IF ins.mode.operand = "Register" /\ RegPanics(s.cpu) THEN Panic(s, "Invalid mode")
        ELSE IF WAnd(operand, UNALLOC_MASK) # ZERO THEN Panic(s, "Attempt to set reserved bits")
        ELSE IF ~ins.r
        THEN IF in_a_privileged_mode(s.cpu) /\ WAnd(operand, STATE_MASK) # ZERO
             THEN Panic(s, "Attempt to set non-ARM execution state")
             ELSE [s EXCEPT !.cpu.cpsr = WOr(WAnd(@, WNot(mask_c)), WAnd(operand, mask_c))]
        ELSE IF current_mode_has_spsr(s.cpu)
             THEN set_spsr(s, WOr(WAnd(get_spsr(s.cpu), WNot(mask_s)), WAnd(operand, mask_s)))
             ELSE Panic(s, "Tried to set SPSR in user or system mode")))))

\* Msr::execute without the check of the operand's T bit
Msr_execute_accepts_t(ins, s) ==
    Let(IF ins.mode.operand = "Immediate" THEN ins.mode.imm
        ELSE get_r(s.cpu, ins.mode.m), LAMBDA operand :
    Let(FieldMask(ins.field_mask), LAMBDA mask :
    Let(IF in_a_privileged_mode(s.cpu) THEN WAnd(mask, WOr(USER_MASK, PRIV_MASK))
        ELSE WAnd(mask, USER_MASK), LAMBDA mask_c :
    Let(WAnd(mask, WOr(WOr(USER_MASK, PRIV_MASK), STATE_MASK)), LAMBDA mask_s :
        IF ins.mode.operand = "Register" /\ RegPanics(s.cpu) THEN Panic(s, "Invalid mode")
        ELSE IF WAnd(operand, UNALLOC_MASK) # ZERO THEN Panic(s, "Attempt to set reserved bits")
        ELSE IF ~ins.r
        THEN [s EXCEPT !.cpu.cpsr = WOr(WAnd(@, WNot(mask_c)), WAnd(operand, mask_c))]
        ELSE IF current_mode_has_spsr(s.cpu)
             THEN set_spsr(s, WOr(WAnd(get_spsr(s.cpu), WNot(mask_s)), WAnd(operand, mask_s)))
             ELSE Panic(s, "Tried to set SPSR in user or system mode")))))

Msr_execute(ins, s) ==
        Let(       IF ins.mode.operand = "Immediate" THEN ins.mode.imm
                   ELSE get_r(s.cpu, ins.mode.m), LAMBDA operand :
    Let(FieldMask(ins.field_mask), LAMBDA mask :
        Let(      IF in_a_privileged_mode(s.cpu) THEN WAnd(mask, WOr(USER_MASK, PRIV_MASK))
                  ELSE WAnd(mask, USER_MASK), LAMBDA mask_c :
    Let(WAnd(mask, WOr(WOr(USER_MASK, PRIV_MASK), STATE_MASK)), LAMBDA mask_s :
        IF ins.mode.operand = "Register" /\ RegPanics(s.cpu) THEN Panic(s, "Invalid mode")
        ELSE IF WAnd(operand, UNALLOC_MASK) # ZERO THEN Panic(s, "Attempt to set reserved bits")
        ELSE IF ~ins.r
        THEN IF in_a_privileged_mode(s.cpu) /\ WAnd(operand, STATE_MASK) # ZERO
             THEN Panic(s, "Attempt to set non-ARM execution state")
             ELSE [s EXCEPT !.cpu.cpsr = WOr(WAnd(@, WNot(mask_c)), WAnd(operand, mask_c))]
        ELSE IF current_mode_has_spsr(s.cpu)
             THEN set_spsr(s, WOr(WAnd(get_spsr(s.cpu), WNot(mask_s)), WAnd(operand, mask_s)))
             ELSE Panic(s, "Tried to set SPSR in user or system mode")))))

----------------------------------------------------------------------------
(* system/instructions/data_processing.rs: the Thumb decoders *)

DpIns(opcode, set_flags, shifter_operand) ==
    [kind |-> "DataProcessing", opcode |-> opcode, set_flags |-> set_flags,
     shifter_operand |-> shifter_operand]

decode_shift_imm_thumb(instruction, next_instruction) ==
    Let(get_bits16(instruction, 3, 3), LAMBDA m :
    Let(get_bits16(instruction, 6, 5), LAMBDA shift_imm :
    Let(get_bits16(instruction, 11, 2), LAMBDA typ :
        IF typ = 3 THEN DecodePanic("decode_shift_imm_thumb: Unknown shift type")
        ELSE DpIns(DpOp("MOV", Some(get_bits16(instruction, 0, 3)), None), TRUE,
                   CASE typ = 0 -> [form |-> "LogicalShiftLeftImmediate", m |-> m, shift_imm |-> shift_imm]
                     [] typ = 1 -> [form |-> "LogicalShiftRightImmediate", m |-> m, shift_imm |-> shift_imm]
                     [] typ = 2 -> [form |-> "ArithmeticShiftRightImmediate", m |-> m, shift_imm |-> shift_imm]))))

decode_register_thumb(instruction, next_instruction) ==
    Let(get_bits16(instruction, 0, 3), LAMBDA d :
    Let(get_bits16(instruction, 3, 3), LAMBDA m :
    Let(get_bits16(instruction, 6, 4), LAMBDA code :
        CASE code = 8 -> DpIns(DpOp("TST", None, Some(d)), TRUE, [form |-> "Register", m |-> m])
          [] code = 15 -> DpIns(DpOp("MVN", Some(d), None), TRUE, [form |-> "Register", m |-> m])
          [] OTHER -> DecodePanic("not yet implemented: Thumb opcode"))))

decode_add_sub_register_thumb(instruction, next_instruction) ==
    Let(get_bits16(instruction, 0, 3), LAMBDA d :
    Let(get_bits16(instruction, 3, 3), LAMBDA n :
        DpIns(DpOp(IF get_bit16(instruction, 9) THEN "SUB" ELSE "ADD", Some(d), Some(n)), TRUE,
              [form |-> "Register", m |-> get_bits16(instruction, 6, 3)])))

decode_add_sub_immediate_thumb(instruction, next_instruction) ==
    Let(get_bits16(instruction, 0, 3), LAMBDA d :
    Let(get_bits16(instruction, 3, 3), LAMBDA n :
        DpIns(DpOp(IF get_bit16(instruction, 9) THEN "SUB" ELSE "ADD", Some(d), Some(n)), TRUE,
              [form |-> "Immediate", immed |-> get_bits16(instruction, 6, 3), rotate_imm |-> 0])))

decode_mov_cmp_add_sub_immediate_thumb(instruction, next_instruction) ==
    Let(get_bits16(instruction, 8, 3), LAMBDA d_n :
    Let(get_bits16(instruction, 11, 2), LAMBDA code :
        DpIns(CASE code = 0 -> DpOp("MOV", Some(d_n), None)
                [] code = 1 -> DpOp("CMP", None, Some(d_n))
                [] code = 2 -> DpOp("ADD", Some(d_n), Some(d_n))
                [] code = 3 -> DpOp("SUB", Some(d_n), Some(d_n)),
              TRUE,
              [form |-> "Immediate", immed |-> get_bits16(instruction, 0, 8), rotate_imm |-> 0])))

decode_adjust_sp_thumb(instruction, next_instruction) ==
    DpIns(DpOp(IF get_bit16(instruction, 7) THEN "SUB" ELSE "ADD",
               Some(REGISTER_SP), Some(REGISTER_SP)),
          FALSE,
          [form |-> "Immediate", immed |-> Shl16(get_bits16(instruction, 0, 7), 2), rotate_imm |-> 0])

----------------------------------------------------------------------------
(* system/instructions/load_store.rs *)

IndexingMode_decode(instruction) ==
    Let(get_bit(instruction, 24), LAMBDA p :
    Let(get_bit(instruction, 21), LAMBDA w :
        IF ~p THEN [indexing |-> "PostIndexed", t |-> w]
        ELSE IF ~w THEN [indexing |-> "Offset"]
        ELSE [indexing |-> "PreIndexed"]))

LsAddressingMode_decode_arm(instruction) ==
    Let(get_bit(instruction, 23), LAMBDA u :
    Let(AsU8(get_bits32(instruction, 16, 4)), LAMBDA n :
    Let(get_bit(instruction, 25), LAMBDA is_scaled_register :
    Let(AsU8(get_bits32(instruction, 0, 4)), LAMBDA m :
    Let(AsU8(get_bits32(instruction, 5, 2)), LAMBDA shift :
    Let(AsU8(get_bits32(instruction, 7, 5)), LAMBDA shift_imm :
        [u_is_add |-> u, n |-> n,
         mode |-> IF ~is_scaled_register
                  THEN [form |-> "Immediate", imm |-> AsU16(get_bits32(instruction, 0, 12))]
                  ELSE CASE shift = 0 /\ shift_imm = 0 -> [form |-> "Register", m |-> m]
                         [] shift = 0 /\ shift_imm # 0 -> [form |-> "LogicalShiftLeft", m |-> m, shift_imm |-> shift_imm]
                         [] shift = 1 -> [form |-> "LogicalShiftRight", m |-> m, shift_imm |-> shift_imm]
                         [] shift = 2 -> [form |-> "ArithmeticShiftRight", m |-> m, shift_imm |-> shift_imm]
                         [] shift = 3 /\ shift_imm = 0 -> [form |-> "RotateRightWithExtend", m |-> m]
                         [] shift = 3 /\ shift_imm # 0 -> [form |-> "RotateRight", m |-> m, shift_imm |-> shift_imm],
         indexing_mode |-> IndexingMode_decode(instruction)]))))))

LsAddressingMode_decode_extra_arm(instruction) ==
    Let(get_bit(instruction, 23), LAMBDA u :
    Let(AsU8(get_bits32(instruction, 16, 4)), LAMBDA n :
    Let(get_bit(instruction, 22), LAMBDA is_immediate :
        [u_is_add |-> u, n |-> n,
         mode |-> IF is_immediate
                  THEN [form |-> "Immediate",
                        imm |-> AsU8(get_bits32(instruction, 8, 4)) * 16
                                + AsU8(get_bits32(instruction, 0, 4))]
                  ELSE [form |-> "Register", m |-> AsU8(get_bits32(instruction, 0, 4))],
         indexing_mode |-> IndexingMode_decode(instruction)])))

LsIns(opcode, length, sign_extend, d, adressing_mode) ==
    [kind |-> "LoadStore", opcode |-> opcode, length |-> length,
     sign_extend |-> sign_extend, d |-> d, adressing_mode |-> adressing_mode]

LoadStore_decode_arm(instruction) ==
    Let(AsU8(get_bits32(instruction, 12, 4)), LAMBDA d :
    Let(get_bit(instruction, 22), LAMBDA b :
        LsIns(IF get_bit(instruction, 20) THEN "LDR" ELSE "STR",
              IF b THEN "Byte" ELSE "Word", FALSE, d,
              LsAddressingMode_decode_arm(instruction))))

decode_extra_arm(instruction) ==
    Let(AsU8(get_bits32(instruction, 12, 4)), LAMBDA d :
    Let(get_bit(instruction, 20), LAMBDA l :
    Let(get_bit(instruction, 6), LAMBDA sbit :
    Let(get_bit(instruction, 5), LAMBDA h :
    Let(LsAddressingMode_decode_extra_arm(instruction), LAMBDA am :
        CASE ~l /\ ~sbit /\ h -> LsIns("STR", "Halfword", FALSE, d, am)
          [] ~l /\ sbit /\ ~h -> LsIns("LDR", "Doubleword", FALSE, d, am)
          [] ~l /\ sbit /\ h -> LsIns("STR", "Doubleword", FALSE, d, am)
          [] l /\ ~sbit /\ h -> LsIns("LDR", "Halfword", FALSE, d, am)
          [] l /\ sbit /\ ~h -> LsIns("LDR", "Byte", TRUE, d, am)
          [] l /\ sbit /\ h -> LsIns("LDR", "Halfword", TRUE, d, am)
          [] OTHER -> DecodePanic("Invalid extra arm instruction"))))))

ThumbAm(n, mode) ==
    [u_is_add |-> TRUE, n |-> n, mode |-> mode, indexing_mode |-> [indexing |-> "Offset"]]

decode_halfword_thumb(instruction, next_instruction) ==
    LsIns(IF get_bit16(instruction, 11) THEN "LDR" ELSE "STR", "Halfword", FALSE,
          get_bits16(instruction, 0, 3),
          ThumbAm(get_bits16(instruction, 3, 3),
                  [form |-> "Immediate", imm |-> get_bits16(instruction, 6, 5) * 2]))

decode_stack_thumb(instruction, next_instruction) ==
    LsIns(IF get_bit16(instruction, 11) THEN "LDR" ELSE "STR", "Word", FALSE,
          get_bits16(instruction, 8, 3),
          ThumbAm(REGISTER_SP, [form |-> "Immediate", imm |-> get_bits16(instruction, 0, 3) * 4]))

decode_load_from_literal_pool_thumb(instruction, next_instruction) ==
    LsIns("LDR", "Word", FALSE, get_bits16(instruction, 8, 3),
          ThumbAm(15, [form |-> "Immediate", imm |-> get_bits16(instruction, 0, 8) * 4]))

decode_register_offset_thumb(instruction, next_instruction) ==
    LsIns(IF get_bit16(instruction, 11) THEN "LDR" ELSE "STR", "Word", FALSE,
          get_bits16(instruction, 0, 3),
          ThumbAm(get_bits16(instruction, 3, 3),
                  [form |-> "Register", m |-> get_bits16(instruction, 6, 3)]))

\* load_store AddressingMode::execute: [s, address]
LsAddressingMode_execute(am, s) ==
    Let(s.cpu, LAMBDA c :
    Let(am.mode, LAMBDA md :
        Let(
            CASE md.form = "Immediate" -> U32(md.imm)
              [] md.form = "Register" -> get_r(c, md.m)
              [] md.form = "LogicalShiftLeft" -> Shl(get_r(c, md.m), md.shift_imm)
              [] md.form = "LogicalShiftRight" ->
                    IF md.shift_imm = 0 THEN ZERO ELSE Shr(get_r(c, md.m), md.shift_imm)
              [] md.form = "ArithmeticShiftRight" ->
                    IF md.shift_imm = 0
                    THEN (IF get_bit(get_r(c, md.m), 31) THEN ALL_ONES ELSE ZERO)
                    ELSE arithmetic_shift_right(get_r(c, md.m), md.shift_imm)
              [] md.form = "RotateRight" -> RotateRight(get_r(c, md.m), md.shift_imm)
              [] md.form = "RotateRightWithExtend" ->
                    rotate_right_with_extend(get_carry_flag(c), get_r(c, md.m)), LAMBDA offset :
    Let(IF am.n = 15 THEN WAnd(get_r(c, am.n), WNot(U32(3))) ELSE get_r(c, am.n), LAMBDA r_n :
    Let(IF am.u_is_add THEN WrappingAdd(r_n, offset) ELSE WrappingSub(r_n, offset), LAMBDA r_n_offset :
        IF RegPanics(c) THEN [s |-> Panic(s, "Invalid mode"), address |-> ZERO]
        ELSE CASE am.indexing_mode.indexing = "Offset" -> [s |-> s, address |-> r_n_offset]
               [] am.indexing_mode.indexing = "PreIndexed" ->
                     [s |-> set_r(s, am.n, r_n_offset), address |-> r_n_offset]
               [] am.indexing_mode.indexing = "PostIndexed" ->
                     [s |-> set_r(s, am.n, r_n_offset), address |-> r_n])))))

\* set_r(d, value) of a load, recorded in the log
LoadInto(s, d, address, rd, value) ==
    IF rd.err # "" THEN Panic(s, rd.err)
    ELSE [set_r(s, d, value) EXCEPT !.log.loads = Append(@, [r |-> d, address |-> address, value |-> value])]

LoadStore_execute(ins, s) ==
    Let(LsAddressingMode_execute(ins.adressing_mode, s), LAMBDA a :
    Let(a.s, LAMBDA t :
    Let(a.address, LAMBDA address :
    Let(read_u8(t.mem, address), LAMBDA r8 :
    Let(read_u16(t.mem, address), LAMBDA r16 :
    Let(read_u32(t.mem, address), LAMBDA r32 :
    Let(CheckedAdd(address, U32(4)), LAMBDA next4 :
        IF ins.d = 15 THEN Panic(s, "not yet implemented: d == 15")
        ELSE IF ~Ok(t) THEN t
        ELSE IF ins.opcode = "LDR"
        THEN CASE ins.length = "Byte" /\ ins.sign_extend ->
                    LoadInto(t, ins.d, address, r8, sign_extend32(U32(r8.v), 8))
               [] ins.length = "Byte" /\ ~ins.sign_extend ->
                    LoadInto(t, ins.d, address, r8, U32(r8.v))
               [] ins.length = "Halfword" /\ ins.sign_extend ->
                    LoadInto(t, ins.d, address, r16, sign_extend32(U32(r16.v), 16))
               [] ins.length = "Halfword" /\ ~ins.sign_extend ->
                    LoadInto(t, ins.d, address, r16, U32(r16.v))
               [] ins.length = "Word" -> LoadInto(t, ins.d, address, r32, r32.v)
               [] ins.length = "Doubleword" ->
                    Let(LoadInto(t, ins.d, address, r32, r32.v), LAMBDA t1 :
                    Let(read_u32(t1.mem, next4.v), LAMBDA second :
                        IF ~Ok(t1) THEN t1
                        ELSE IF t.build.debug /\ next4.ovf THEN OverflowPanic(t1, "add")
                        ELSE LoadInto(t1, ins.d + 1, next4.v, second, second.v)))
        ELSE CASE ins.length = "Byte" -> write_u8(t, address, AsU8(get_r(t.cpu, ins.d)))
               [] ins.length = "Halfword" -> write_u16(t, address, AsU16(get_r(t.cpu, ins.d)))
               [] ins.length = "Word" -> write_u32(t, address, get_r(t.cpu, ins.d))
               [] ins.length = "Doubleword" ->
                    Let(write_u32(t, address, get_r(t.cpu, ins.d)), LAMBDA t1 :
                        IF ~Ok(t1) THEN t1
                        ELSE IF t.build.debug /\ next4.ovf THEN OverflowPanic(t1, "add")
                        ELSE write_u32(t1, next4.v, get_r(t1.cpu, ins.d + 1))))))))))

----------------------------------------------------------------------------
(* system/instructions/lut.rs *)

\* the 'x' of a pattern string; '0' and '1' are 0 and 1
X == 2

UnknownInstruction_decode_arm(instruction) ==
    [kind |-> "Unknown", state |-> "Arm"]

UnknownInstruction_decode_thumb(instruction, next_instruction) ==
    [kind |-> "Unknown", state |-> "Thumb"]

\* data_processing::decode_special_thumb is named by setup_patterns and is
\* not defined in data_processing.rs: its result is left opaque
decode_special_thumb(instruction, next_instruction) ==
    [kind |-> "Special"]

\* setup_patterns, in the order of its add_pattern calls
ArmPatterns ==
    << <<<<0,0,0,X,X,X,X,X, X,X,X,0>>, "data_processing::decode_arm">>,
       <<<<0,0,0,1,0,X,X,0, X,X,X,0>>, "UnknownInstruction::decode_arm">>,
       <<<<0,0,0,1,0,X,0,0, 0,0,0,0>>, "ctrl_ext::mrs::decode_arm">>,
       <<<<0,0,0,1,0,X,1,0, 0,0,0,0>>, "ctrl_ext::msr::decode_arm">>,
       <<<<0,0,0,X,X,X,X,X, 0,X,X,1>>, "data_processing::decode_arm">>,
       <<<<0,0,0,1,0,X,X,0, X,X,X,1>>, "UnknownInstruction::decode_arm">>,
       <<<<0,0,0,1,0,0,1,0, 0,0,0,1>>, "branch::decode_bx_arm">>,
       <<<<0,0,0,1,0,0,1,0, 0,0,1,1>>, "branch::decode_blx_arm">>,
       <<<<0,0,0,X,X,X,X,X, 1,X,X,1>>, "load_store::decode_extra_arm">>,
       <<<<0,0,1,X,X,X,X,X, X,X,X,X>>, "data_processing::decode_arm">>,
       <<<<0,0,1,1,0,X,0,0, 1,X,X,1>>, "UnknownInstruction::decode_arm">>,
       <<<<0,0,1,1,0,X,1,0, X,X,X,X>>, "UnknownInstruction::decode_arm">>,
       <<<<0,1,0,X,X,X,X,X, X,X,X,X>>, "load_store::decode_arm">>,
       <<<<0,1,1,X,X,X,X,X, X,X,X,0>>, "load_store::decode_arm">>,
       <<<<0,1,1,X,X,X,X,X, X,X,X,1>>, "load_store::decode_arm">>,
       <<<<0,1,1,1,1,1,1,1, 1,1,1,1>>, "UnknownInstruction::decode_arm">>,
       <<<<1,0,0,X,X,X,X,X, X,X,X,X>>, "load_store_multiple::decode_arm">>,
       <<<<1,0,1,0,X,X,X,X, X,X,X,X>>, "branch::decode_b_arm">>,
       <<<<1,0,1,1,X,X,X,X, X,X,X,X>>, "branch::decode_bl_arm">>,
       <<<<1,1,0,X,X,X,X,X, X,X,X,X>>, "UnknownInstruction::decode_arm">>,
       <<<<1,1,1,0,X,X,X,X, X,X,X,0>>, "UnknownInstruction::decode_arm">>,
       <<<<1,1,1,0,X,X,X,X, X,X,X,1>>, "UnknownInstruction::decode_arm">>,
       <<<<1,1,1,1,X,X,X,X, X,X,X,X>>, "UnknownInstruction::decode_arm">> >>

ThumbPatterns ==
    << <<<<0,0,0, X,X, X, X,X>>, "data_processing::decode_shift_imm_thumb">>,
       <<<<0,0,0, 1,1, 0, X,X>>, "data_processing::decode_add_sub_register_thumb">>,
       <<<<0,0,0, 1,1, 1, X,X>>, "data_processing::decode_add_sub_immediate_thumb">>,
       <<<<0,0,1, X,X,X,X,X>>, "data_processing::decode_mov_cmp_add_sub_immediate_thumb">>,
       <<<<0,1,0,0,0,0, X,X>>, "data_processing::decode_register_thumb">>,
       <<<<0,1,0,0,0,1, X,X>>, "data_processing::decode_special_thumb">>,
       <<<<0,1,0,0,0,1, 1,1>>, "branch::decode_branch_exchange_thumb">>,
       <<<<0,1,0,0,1,X, X,X>>, "load_store::decode_load_from_literal_pool_thumb">>,
       <<<<0,1,0,1, X,X,X,X>>, "load_store::decode_register_offset_thumb">>,
       <<<<0,1,1,X, X,X,X,X>>, "UnknownInstruction::decode_thumb">>,
       <<<<1,0,0,0, X,X,X,X>>, "load_store::decode_halfword_thumb">>,
       <<<<1,0,0,1, X,X,X,X>>, "load_store::decode_stack_thumb">>,
       <<<<1,0,1,0, X,X,X,X>>, "UnknownInstruction::decode_thumb">>,
       <<<<1,0,1,1, X,X,X,X>>, "UnknownInstruction::decode_thumb">>,
       <<<<1,0,1,1, 0,0,0,0>>, "data_processing::decode_adjust_sp_thumb">>,
       <<<<1,0,1,1, 0,1,0,X>>, "load_store_multiple::decode_push_thumb">>,
       <<<<1,0,1,1, 1,1,0,X>>, "load_store_multiple::decode_pop_thumb">>,
       <<<<1,1,0,0, X,X,X,X>>, "UnknownInstruction::decode_thumb">>,
       <<<<1,1,0,1, X,X,X,X>>, "branch::decode_conditional_branch_thumb">>,
       <<<<1,1,0,1, 1,1,1,0>>, "UnknownInstruction::decode_thumb">>,
       <<<<1,1,0,1, 1,1,1,1>>, "UnknownInstruction::decode_thumb">>,
       <<<<1,1,1,0,0, X,X,X>>, "branch::decode_unconditional_branch_thumb">>,
       <<<<1,1,1,0,1, X,X,X>>, "UnknownInstruction::decode_thumb">>,
       <<<<1,1,1,1,0, X,X,X>>, "branch::decode_bl_thumb">>,
       <<<<1,1,1,1,1, X,X,X>>, "UnknownInstruction::decode_thumb">> >>

\* add_pattern writes its decoder at every index the pattern covers:
\* character i of the pattern stands for bit (pattern_len - 1 - i)
Covers(pattern, index) ==
    \A j \in 1..Len(pattern) :
        pattern[j] = X \/ pattern[j] = (index \div Pow2(Len(pattern) - j)) % 2

\* The table entry at index after the first k add_pattern calls: the decoder
\* of the last of them that covers it, else the initial fill.
RECURSIVE TableEntry(_, _, _, _)
TableEntry(patterns, k, index, fill) ==
    IF k = 0 THEN fill
    ELSE IF Covers(patterns[k][1], index) THEN patterns[k][2]
    ELSE TableEntry(patterns, k - 1, index, fill)

decoders_arm(index) ==
    TableEntry(ArmPatterns, Len(ArmPatterns), index, "UnknownInstruction::decode_arm")

decoders_thumb(index) ==
    TableEntry(ThumbPatterns, Len(ThumbPatterns), index, "UnknownInstruction::decode_thumb")

index_arm(instruction) ==
    Let(get_bits32(instruction, 20, 8), LAMBDA upper :
    Let(get_bits32(instruction, 4, 4), LAMBDA lower :
        AsU16(WOr(Shl(upper, 4), lower))))

index_thumb(instruction) == instruction \div 256

InstructionLut_decode_arm(instruction, debug) ==
    Let(decoders_arm(index_arm(instruction)), LAMBDA decoder :
        CASE decoder = "data_processing::decode_arm" -> DataProcessing_decode_arm(instruction)
          [] decoder = "ctrl_ext::mrs::decode_arm" -> mrs_decode_arm(instruction)
          [] decoder = "ctrl_ext::msr::decode_arm" -> msr_decode_arm(instruction, debug)
          [] decoder = "branch::decode_bx_arm" -> decode_bx_arm(instruction)
          [] decoder = "branch::decode_blx_arm" -> decode_blx_arm(instruction)
          [] decoder = "load_store::decode_extra_arm" -> decode_extra_arm(instruction)
          [] decoder = "load_store::decode_arm" -> LoadStore_decode_arm(instruction)
          [] decoder = "load_store_multiple::decode_arm" -> LoadStoreMultiple_decode_arm(instruction)
          [] decoder = "branch::decode_b_arm" -> decode_b_arm(instruction)
          [] decoder = "branch::decode_bl_arm" -> decode_bl_arm(instruction)
          [] decoder = "UnknownInstruction::decode_arm" -> UnknownInstruction_decode_arm(instruction))

InstructionLut_decode_thumb(instruction, next_instruction) ==
    Let(decoders_thumb(index_thumb(instruction)), LAMBDA decoder :
        CASE decoder = "data_processing::decode_shift_imm_thumb" ->
                decode_shift_imm_thumb(instruction, next_instruction)
          [] decoder = "data_processing::decode_add_sub_register_thumb" ->
                decode_add_sub_register_thumb(instruction, next_instruction)
          [] decoder = "data_processing::decode_add_sub_immediate_thumb" ->
                decode_add_sub_immediate_thumb(instruction, next_instruction)
          [] decoder = "data_processing::decode_mov_cmp_add_sub_immediate_thumb" ->
                decode_mov_cmp_add_sub_immediate_thumb(instruction, next_instruction)
          [] decoder = "data_processing::decode_register_thumb" ->
                decode_register_thumb(instruction, next_instruction)
          [] decoder = "data_processing::decode_special_thumb" ->
                decode_special_thumb(instruction, next_instruction)
          [] decoder = "branch::decode_branch_exchange_thumb" ->
                decode_branch_exchange_thumb(instruction, next_instruction)
          [] decoder = "load_store::decode_load_from_literal_pool_thumb" ->
                decode_load_from_literal_pool_thumb(instruction, next_instruction)
          [] decoder = "load_store::decode_register_offset_thumb" ->
                decode_register_offset_thumb(instruction, next_instruction)
          [] decoder = "load_store::decode_halfword_thumb" ->
                decode_halfword_thumb(instruction, next_instruction)
          [] decoder = "load_store::decode_stack_thumb" ->
                decode_stack_thumb(instruction, next_instruction)
          [] decoder = "data_processing::decode_adjust_sp_thumb" ->
                decode_adjust_sp_thumb(instruction, next_instruction)
          [] decoder = "load_store_multiple::decode_push_thumb" ->
                decode_push_thumb(instruction, next_instruction)
          [] decoder = "load_store_multiple::decode_pop_thumb" ->
                decode_pop_thumb(instruction, next_instruction)
          [] decoder = "branch::decode_conditional_branch_thumb" ->
                decode_conditional_branch_thumb(instruction, next_instruction)
          [] decoder = "branch::decode_unconditional_branch_thumb" ->
                decode_unconditional_branch_thumb(instruction, next_instruction)
          [] decoder = "branch::decode_bl_thumb" ->
                decode_bl_thumb(instruction, next_instruction)
          [] decoder = "UnknownInstruction::decode_thumb" ->
                UnknownInstruction_decode_thumb(instruction, next_instruction))

\* DecodedInstruction::execute, by the kind of the decoded operation
execute(ins, s) ==
    CASE ins.kind = "DataProcessing" -> DataProcessing_execute(ins, s)
      [] ins.kind = "Branch" -> Branch_execute(ins, s)
      [] ins.kind = "LoadStore" -> LoadStore_execute(ins, s)
      [] ins.kind = "LoadStoreMultiple" -> LoadStoreMultiple_execute(ins, s)
      [] ins.kind = "Mrs" -> Mrs_execute(ins, s)
      [] ins.kind = "Msr" -> Msr_execute(ins, s)
      [] ins.kind = "Unknown" /\ ins.state = "Arm" ->
            Panic(s, "Tried to execute unknown arm instruction")
      [] ins.kind = "Unknown" /\ ins.state = "Thumb" ->
            Panic(s, "Tried to execute unknown thumb instruction")
      [] ins.kind = "Special" ->
            Panic(s, "decode_special_thumb has no definition")

----------------------------------------------------------------------------
(* system/cpu.rs: the step loop *)

fetch_arm(s) == read_u32(s.mem, s.cpu.r[REGISTER_PC])

fetch_thumb(s) == read_u16(s.mem, s.cpu.r[REGISTER_PC])

\* self.r[REGISTER_PC] += self.instruction_len_in_bytes()
AdvancePc(s) ==
    Let(CheckedAdd(s.cpu.r[REGISTER_PC], U32(instruction_len_in_bytes(s.cpu))), LAMBDA a :
        IF s.build.debug /\ a.ovf THEN OverflowPanic(s, "add")
        ELSE [s EXCEPT !.cpu.r[REGISTER_PC] = a.v])

\* self.r[REGISTER_PC] -= self.instruction_len_in_bytes()
RetreatPc(s) ==
    Let(CheckedSub(s.cpu.r[REGISTER_PC], U32(instruction_len_in_bytes(s.cpu))), LAMBDA a :
        IF s.build.debug /\ a.ovf THEN OverflowPanic(s, "subtract")
        ELSE [s EXCEPT !.cpu.r[REGISTER_PC] = a.v])

\* cpu.rs:184-195: from the second advance of PC to the cycle count
ExecuteStage(s, decoded_instruction) ==
    Let(AdvancePc(s), LAMBDA s1 :
    Let([s1 EXCEPT !.cpu.branch_happened = FALSE, !.log.executed = TRUE], LAMBDA s2 :
    Let(execute(decoded_instruction, s2), LAMBDA s3 :
    Let(IF ~s3.cpu.branch_happened THEN RetreatPc(s3) ELSE s3, LAMBDA s4 :
        IF decoded_instruction.kind = "panic" THEN Panic(s, decoded_instruction.msg)
        ELSE IF ~Ok(s1) THEN s1
        ELSE IF ~Ok(s3) THEN s3
        ELSE IF ~Ok(s4) THEN s4
        ELSE [s4 EXCEPT !.cpu.cycles = @ + 2]))))

\* log.fetch is the address and width of the read that fetch_thumb or
\* fetch_arm starts the step with
cycle(s0) ==
        Let( [s0 EXCEPT !.log.fetch =
                  [address |-> s0.cpu.r[REGISTER_PC],
                   width |-> IF get_thumb_state(s0.cpu) THEN 16 ELSE 32]], LAMBDA s :

    IF get_thumb_state(s.cpu)
    THEN Let(fetch_thumb(s), LAMBDA instruction :
         Let(AdvancePc(s), LAMBDA s1 :
         Let(fetch_thumb(s1), LAMBDA next_instruction :
             IF instruction.err # "" THEN Panic(s, instruction.err)
             ELSE IF ~Ok(s1) THEN s1
             ELSE IF next_instruction.err # "" THEN Panic(s1, next_instruction.err)
             ELSE ExecuteStage([s1 EXCEPT !.log.fetched = <<instruction.v, next_instruction.v>>],
                               InstructionLut_decode_thumb(instruction.v, next_instruction.v)))))
    ELSE Let(fetch_arm(s), LAMBDA instruction :
         Let(AdvancePc(s), LAMBDA s1 :
         Let(Condition_decode_arm(instruction.v), LAMBDA cond :
             IF instruction.err # "" THEN Panic(s, instruction.err)
             ELSE IF ~Ok(s1) THEN s1
             ELSE IF cond = "panic" THEN Panic(s1, "Invalid condition")
             ELSE IF ~Condition_check(cond, s1.cpu)
             THEN [s1 EXCEPT !.log.fetched = <<instruction.v>>]
             ELSE ExecuteStage([s1 EXCEPT !.log.fetched = <<instruction.v>>],
                               InstructionLut_decode_arm(instruction.v, s1.build.debug))))))

----------------------------------------------------------------------------
(* The machine as a state machine.  A step of the program is one call of   *)
(* CPU::cycle; obs keeps the CPU and memory the call started from, the log *)
(* of what it did, and the CPU the run started from.                       *)

Machine == [cpu |-> cpu, mem |-> mem, err |-> err, build |-> build, log |-> EmptyLog]

\* the little-endian bytes of a word, and of a sequence of words
WordBytes(w) == <<FieldVal(w, 0, 8), FieldVal(w, 8, 8), FieldVal(w, 16, 8), FieldVal(w, 24, 8)>>

RECURSIVE Image(_)
Image(words) ==
    IF words = <<>> THEN <<>> ELSE WordBytes(Head(words)) \o Image(Tail(words))

\* the longest run of steps explored from an initial state
MaxSteps == 4

\* the longest run explored from a state drawn for a single operation
ShortRun == 2

CycleWithin(bound) ==
    /\ err = ""
    /\ obs.steps < bound
    /\ Let(cycle(Machine), LAMBDA s :
           /\ cpu' = s.cpu
           /\ mem' = s.mem
           /\ err' = s.err
           /\ obs' = [op |-> "cycle", steps |-> obs.steps + 1, pre |-> cpu,
                      premem |-> mem, log |-> s.log, origin |-> obs.origin])
    /\ UNCHANGED build

Cycle == CycleWithin(MaxSteps)

Step == CycleWithin(ShortRun)

Start(c, m, debug) ==
    /\ cpu = c
    /\ mem = m
    /\ err = ""
    /\ build = [debug |-> debug]
    /\ obs = [op |-> "new", steps |-> 0, pre |-> c, premem |-> m, log |-> EmptyLog,
              origin |-> c]

\* ARM words a BIOS image is assembled from, as <<high half, low half>>
Pool ==
    { <<58272, 9>>,      \* E3A00009  MOV R0, #9
      <<57647, 65296>>,  \* E12FFF10  BX R0
      <<59904, 0>>,      \* EA000000  B +8
      <<60415, 65534>>,  \* EBFFFFFE  BL to itself
      <<928, 4097>>,     \* 03A01001  MOVEQ R1, #1
      <<3072, 0>>,       \* 0C000000  a coprocessor word, condition EQ
      <<57760, 61455>>,  \* E1A0F00F  MOV PC, PC
      <<58192, 0>>,      \* E3500000  CMP R0, #0
      <<57615, 61440>>,  \* E10FF000  MRS PC, CPSR
      <<18176, 8197>>,   \* 47002005  Thumb MOV R0, #5 ; BX R0 (as ARM: condition MI)
      <<59581, 32768>> } \* E8BD8000  LDMIA SP!, {PC}

\* the number of words of a program
ProgLen == 3

Programs == [1..ProgLen -> Pool]

\* a BIOS image: the program and one word of zeroes after it
BiosOf(prog) ==
    Image([i \in 1..(ProgLen + 1) |-> IF i <= ProgLen THEN W(prog[i][1], prog[i][2]) ELSE ZERO])

Init ==
    \E prog \in Programs, debug \in BOOLEAN :
        Start(CPU_new, Memory_new(BiosOf(prog), <<>>), debug)

Next == Cycle

Spec == Init /\ [][Next]_vars

----------------------------------------------------------------------------
(* Claims about the step loop *)

IsPcWrite(w) == w.r = REGISTER_PC

\* the writes of the latest step to register 15, oldest first
PcWrites == SelectSeq(obs.log.writes, IsPcWrite)

\* the latest step ran an operation's execute and returned
StepExecuted == obs.op = "cycle" /\ err = "" /\ obs.log.executed

\* the instruction width of the state the latest step started in
WidthBefore == IF Bit(obs.pre.cpsr, 5) THEN 2 ELSE 4

\* C1: after a step that executed an operation, PC is the PC before the step
\* plus one instruction width when the operation wrote no register 15, and
\* is exactly the last value written to register 15 when it wrote one.
C1_PcAfterExecutedStep ==
    StepExecuted =>
        IF PcWrites = <<>>
        THEN cpu.r[15] = WrappingAdd(obs.pre.r[15], U32(WidthBefore))
        ELSE cpu.r[15] = PcWrites[Len(PcWrites)].value

\* a step that wrote to register 15 the value PC held while it executed
C1_WitnessWritesSamePc ==
    /\ StepExecuted
    /\ PcWrites # <<>>
    /\ PcWrites[Len(PcWrites)].value = WrappingAdd(obs.pre.r[15], U32(2 * WidthBefore))

----------------------------------------------------------------------------
(* The register file on its own: set_r / set_r_in_mode calls and mode      *)
(* changes from the state CPU::new leaves.  obs.hist is the sequence of    *)
(* the writes made so far.                                                 *)

\* the writes of a run of the register file
MaxWrites == 2

\* the registers written: unbanked everywhere (7, 15), banked by FIQ
\* alone (8) and banked by every exception mode (13, 14)
RegSample == {7, 8, 13, 14, 15}

RegsInit ==
    /\ cpu = CPU_new
    /\ mem = Memory_new(<<>>, <<>>)
    /\ err = ""
    /\ build \in {[debug |-> FALSE], [debug |-> TRUE]}
    /\ obs = [op |-> "new", hist |-> <<>>]

\* the k-th write writes the value k
NextValue == U32(Len(obs.hist) + 1)

SetRInMode ==
    /\ err = ""
    /\ Len(obs.hist) < MaxWrites
    /\ \E r \in RegSample, mode \in ValidModes :
          Let(set_r_in_mode(Machine, r, mode, NextValue), LAMBDA s :
              /\ cpu' = s.cpu
              /\ err' = s.err
              /\ obs' = [op |-> "set_r_in_mode",
                         hist |-> Append(obs.hist, [r |-> r, mode |-> mode, value |-> NextValue])])
    /\ UNCHANGED <<mem, build>>

SetR ==
    /\ err = ""
    /\ Len(obs.hist) < MaxWrites
    /\ \E r \in RegSample :
          Let(set_r(Machine, r, NextValue), LAMBDA s :
              /\ cpu' = s.cpu
              /\ err' = s.err
              /\ obs' = [op |-> "set_r",
                         hist |-> Append(obs.hist, [r |-> r, mode |-> get_mode(cpu), value |-> NextValue])])
    /\ UNCHANGED <<mem, build>>

SetMode ==
    /\ err = ""
    /\ \E mode \in ValidModes :
          /\ mode # get_mode(cpu)
          /\ cpu' = set_mode(cpu, mode)
          /\ obs' = [obs EXCEPT !.op = "set_mode"]
    /\ UNCHANGED <<mem, err, build>>

RegsNext == SetRInMode \/ SetR \/ SetMode

SpecRegs == RegsInit /\ [][RegsNext]_vars

\* The storage a (register, mode) pair uses, as the banking rule states it:
\* R13-R14 private to each of SVC, ABT, UND, IRQ; R8-R14 private to FIQ;
\* everything else in the one unbanked set.
StorageOf(r, mode) ==
    IF mode \in {MODE_SVC, MODE_ABT, MODE_UND, MODE_IRQ} /\ r \in 13..14 THEN <<r, mode>>
    ELSE IF mode = MODE_FIQ /\ r \in 8..14 THEN <<r, MODE_FIQ>>
    ELSE <<r, 0>>

\* the value of the most recent of the first k writes that went to the
\* storage of (r, mode); zero, the value CPU::new gives, when there is none
RECURSIVE LastWritten(_, _, _, _)
LastWritten(hist, k, r, mode) ==
    IF k = 0 THEN ZERO
    ELSE IF StorageOf(hist[k].r, hist[k].mode) = StorageOf(r, mode) THEN hist[k].value
    ELSE LastWritten(hist, k - 1, r, mode)

\* C2: after any sequence of set_r / set_r_in_mode calls and mode changes,
\* get_r_in_mode(R, M) is the value of the most recent write to R made in a
\* mode that shares R's storage with M, for every register and every mode.
C2_BankedRegisters ==
    err = "" /\
    \A r \in 0..15, mode \in ValidModes :
        get_r_in_mode(cpu, r, mode) = LastWritten(obs.hist, Len(obs.hist), r, mode)

\* R13 was written in SVC and then in IRQ, and the CPU, now in SVC, reads
\* the first of the two
C2_WitnessIrqWriteHidden ==
    /\ Len(obs.hist) = 2
    /\ obs.hist[1].r = 13 /\ obs.hist[1].mode = MODE_SVC
    /\ obs.hist[2].r = 13 /\ obs.hist[2].mode = MODE_IRQ
    /\ obs.op = "set_mode"
    /\ get_mode(cpu) = MODE_SVC
    /\ get_r(cpu, 13) = obs.hist[1].value

----------------------------------------------------------------------------
(* Condition::decode_arm and Condition::check on their own *)

WithFlags(c, n, z, cf, v) ==
    set_overflow_flag(set_carry_flag(set_zero_flag(set_negative_flag(c, n), z), cf), v)

\* the low 28 bits put under the condition field, as <<high 12 bits, low half>>
CondBodies == {<<0, 0>>, <<4095, 65535>>}

CondInit ==
    \E field \in 0..15, body \in CondBodies, n \in BOOLEAN, z \in BOOLEAN, cf \in BOOLEAN,
       v \in BOOLEAN, debug \in BOOLEAN :
        /\ cpu = WithFlags(CPU_new, n, z, cf, v)
        /\ mem = Memory_new(<<>>, <<>>)
        /\ err = ""
        /\ build = [debug |-> debug]
        /\ obs = [op |-> "input", instruction |-> W(field * 4096 + body[1], body[2])]

\* let cond = Condition::decode_arm(instruction); cond.check(cpu)
CheckCondition ==
    /\ obs.op = "input"
    /\ Let(Condition_decode_arm(obs.instruction), LAMBDA cond :
           IF cond = "panic"
           THEN /\ err' = "Invalid condition"
                /\ obs' = [op |-> "check", instruction |-> obs.instruction, result |-> FALSE]
           ELSE /\ err' = ""
                /\ obs' = [op |-> "check", instruction |-> obs.instruction,
                           result |-> Condition_check(cond, cpu)])
    /\ UNCHANGED <<cpu, mem, build>>

CondNext == CheckCondition

SpecCond == CondInit /\ [][CondNext]_vars

\* The architecture's table: the truth value of condition field k (0..14, in
\* the order EQ NE CS CC MI PL VS VC HI LS GE LT GT LE AL) under N, Z, C, V.
ArchCondition(k, n, z, cf, v) ==
    CASE k = 0 -> z
      [] k = 1 -> ~z
      [] k = 2 -> cf
      [] k = 3 -> ~cf
      [] k = 4 -> n
      [] k = 5 -> ~n
      [] k = 6 -> v
      [] k = 7 -> ~v
      [] k = 8 -> cf /\ ~z
      [] k = 9 -> ~cf \/ z
      [] k = 10 -> n = v
      [] k = 11 -> n # v
      [] k = 12 -> ~z /\ n = v
      [] k = 13 -> z \/ n # v
      [] k = 14 -> TRUE

\* the condition field of a word, and ArchCondition under the flags of c
FieldOf(instruction) == instruction[1] \div 4096

ArchHolds(instruction, c) ==
    ArchCondition(FieldOf(instruction), Bit(c.cpsr, 31), Bit(c.cpsr, 30), Bit(c.cpsr, 29),
                  Bit(c.cpsr, 28))

\* C4: for each of the 15 condition fields and each N, Z, C, V, decoding
\* bits 31..28 and checking gives the architecture's truth value; field
\* 0b1111 gives an error and no condition.
C4_ConditionTable ==
    obs.op = "check" =>
        IF FieldOf(obs.instruction) = 15 THEN err # ""
        ELSE err = "" /\ obs.result = ArchHolds(obs.instruction, cpu)

\* LE checked true because N differs from V while Z is clear
C4_WitnessLessOrEqual ==
    /\ obs.op = "check"
    /\ FieldOf(obs.instruction) = 13
    /\ ~Bit(cpu.cpsr, 30) /\ Bit(cpu.cpsr, 31) /\ ~Bit(cpu.cpsr, 28)
    /\ obs.result

----------------------------------------------------------------------------
(* One ARM word under every condition field and every N, Z, C, V *)

\* the low 28 bits of the word, as <<high 12 bits, low half>>
SkipBodies ==
    { <<3072, 0>>,      \* C000000  coprocessor load/store
      <<3840, 0>>,      \* F000000  software interrupt
      <<1408, 4096>>,   \* 5801000  STR R1, [R0]
      <<944, 4097>>,    \* 3B01001  MOVS R1, #1
      <<2816, 0>>,      \* B000000  BL +8
      <<361, 61441>> }  \* 169F001  MSR SPSR_fc, R1

\* R0 points into work RAM, R1 holds a value to store
SkipRegs == [i \in 0..15 |-> CASE i = 0 -> W(512, 0) [] i = 1 -> W(0, 4660) [] OTHER -> ZERO]

SkipInit ==
    \E field \in 0..15, body \in SkipBodies, n \in BOOLEAN, z \in BOOLEAN, cf \in BOOLEAN,
       v \in BOOLEAN, debug \in BOOLEAN :
        Start([WithFlags(CPU_new, n, z, cf, v) EXCEPT !.r = SkipRegs],
              Memory_new(Image(<<W(field * 4096 + body[1], body[2]), ZERO>>), <<>>),
              debug)

SkipNext == Step

SpecSkip == SkipInit /\ [][SkipNext]_vars

\* the word the latest step fetched, read again from the memory it started in
WordBefore == read_u32(obs.premem, obs.pre.r[15])

\* the latest step started in ARM state on a word whose condition is false
ConditionFailed ==
    /\ obs.op = "cycle"
    /\ ~Bit(obs.pre.cpsr, 5)
    /\ WordBefore.err = ""
    /\ FieldOf(WordBefore.v) # 15
    /\ ~ArchHolds(WordBefore.v, obs.pre)

\* C3: a step on an ARM word whose condition is false raises no error and
\* changes nothing but PC, which advances by 4: all registers and banks,
\* CPSR, the SPSRs, memory and the cycle counter are as before.
C3_SkippedInstructionFrame ==
    ConditionFailed =>
        /\ err = ""
        /\ mem = obs.premem
        /\ cpu = [obs.pre EXCEPT !.r[15] = WrappingAdd(@, U32(4))]

\* a skipped word that the table decodes to Unknown
C3_WitnessSkippedUnknown ==
    /\ ConditionFailed
    /\ err = ""
    /\ decoders_arm(index_arm(WordBefore.v)) = "UnknownInstruction::decode_arm"

----------------------------------------------------------------------------
(* ShifterOperand::decode_arm and ShifterOperand::eval on their own *)

\* the values of Rm (R2) and Rs (R3)
RmSample == {<<0, 0>>, <<0, 1>>, <<32768, 0>>, <<32768, 1>>, <<32767, 65535>>,
             <<65535, 65535>>, <<4660, 22136>>}

RsSample == {<<0, 0>>, <<0, 1>>, <<0, 31>>, <<0, 32>>, <<0, 33>>, <<0, 64>>, <<0, 255>>,
             <<0, 256>>, <<43981, 288>>}

\* bit 25 and bits 11..0 of the word: the immediate form, the shifts by an
\* immediate of R2, and the shifts of R2 by R3
OperandSample ==
    { <<1, rot * 256 + imm>> : rot \in {0, 1, 4, 15}, imm \in {0, 1, 128, 255} }
    \cup { <<0, n * 128 + ty * 32 + 2>> : n \in {0, 1, 16, 31}, ty \in 0..3 }
    \cup { <<0, 3 * 256 + ty * 32 + 16 + 2>> : ty \in 0..3 }

ShifterInit ==
    \E operand \in OperandSample, rm \in RmSample, rs \in RsSample, cf \in BOOLEAN,
       debug \in BOOLEAN :
        /\ cpu = [set_carry_flag(CPU_new, cf) EXCEPT !.r[2] = rm, !.r[3] = rs]
        /\ mem = Memory_new(<<>>, <<>>)
        /\ err = ""
        /\ build = [debug |-> debug]
        /\ obs = [op |-> "input",
                  instruction |-> W(57344 + operand[1] * 512 + 416, operand[2])]

\* self.shifter_operand.eval(cpu) on the decoded operand of the word
EvalShifterOperand ==
    /\ obs.op = "input"
    /\ Let(ShifterOperand_eval(ShifterOperand_decode_arm(obs.instruction), cpu), LAMBDA result :
           /\ err' = result.err
           /\ obs' = [op |-> "eval", instruction |-> obs.instruction, result |-> result])
    /\ UNCHANGED <<cpu, mem, build>>

ShifterNext == EvalShifterOperand

SpecShifter == ShifterInit /\ [][ShifterNext]_vars

\* a word as the function from bit positions to bits
Vec(w) == [i \in 0..31 |-> Bit(w, i)]

\* The architecture's shifter operand of a data-processing word, given the
\* values of Rm and Rs and the C flag: the value as a function from bit
\* positions to bits, and the carry-out.
ArchShifterOperand(w, rm, rs, cf) ==
    Let(Vec(rm), LAMBDA m :
    Let(2 * FieldVal(w, 8, 4), LAMBDA rot :
    Let([i \in 0..31 |-> Bit(U32(FieldVal(w, 0, 8)), (i + rot) % 32)], LAMBDA imm :
    Let(FieldVal(w, 5, 2), LAMBDA ty :
    Let(Bit(w, 4), LAMBDA byreg :
    Let(IF byreg THEN Lo16(rs) % 256 ELSE FieldVal(w, 7, 5), LAMBDA n :
    Let([i \in 0..31 |-> FALSE], LAMBDA zero :
    Let([i \in 0..31 |-> m[31]], LAMBDA sign :
    Let([i \in 0..31 |-> i >= n /\ m[i - n]], LAMBDA lsl :
    Let([i \in 0..31 |-> i + n <= 31 /\ m[i + n]], LAMBDA lsr :
    Let([i \in 0..31 |-> IF i + n <= 31 THEN m[i + n] ELSE m[31]], LAMBDA asr :
    Let([i \in 0..31 |-> m[(i + n) % 32]], LAMBDA ror :
    Let([i \in 0..31 |-> IF i = 31 THEN cf ELSE m[i + 1]], LAMBDA rrx :
    LET out(value, carry) == [value |-> value, carry |-> carry]
    IN  IF Bit(w, 25) THEN out(imm, IF rot = 0 THEN cf ELSE imm[31])
        ELSE IF byreg /\ n = 0 THEN out(m, cf)
        ELSE CASE ty = 0 -> IF n = 0 THEN out(m, cf)
                            ELSE IF n < 32 THEN out(lsl, m[32 - n])
                            ELSE IF n = 32 THEN out(zero, m[0])
                            ELSE out(zero, FALSE)
               [] ty = 1 -> IF n = 0 \/ n = 32 THEN out(zero, m[31])
                            ELSE IF n < 32 THEN out(lsr, m[n - 1])
                            ELSE out(zero, FALSE)
               [] ty = 2 -> IF n = 0 \/ n >= 32 THEN out(sign, m[31])
                            ELSE out(asr, m[n - 1])
               [] ty = 3 -> IF n = 0 THEN out(rrx, m[0])
                            ELSE IF n % 32 = 0 THEN out(m, m[31])
                            ELSE out(ror, m[(n % 32) - 1]))))))))))))))

\* C6: for every operand form, Rm, carry-in and shift amount, eval of the
\* decoded shifter operand returns the architecture's value and carry-out.
C6_ShifterOperand ==
    obs.op = "eval" =>
        Let(ArchShifterOperand(obs.instruction, cpu.r[2], cpu.r[3], Bit(cpu.cpsr, 29)), LAMBDA arch :
            /\ obs.result.err = ""
            /\ Vec(obs.result.v) = arch.value
            /\ obs.result.carry = arch.carry)

\* R2 shifted left by R3 = 32: the value is zero and the carry is bit 0 of R2
C6_WitnessLslBy32 ==
    /\ obs.op = "eval"
    /\ Bit(obs.instruction, 4) /\ FieldVal(obs.instruction, 5, 2) = 0
    /\ cpu.r[3] = <<0, 32>>
    /\ cpu.r[2] = <<32768, 1>>
    /\ obs.result.v = ZERO /\ obs.result.carry

----------------------------------------------------------------------------
(* One ARM data-processing word: every opcode, with and without S, on      *)
(* operands chosen for their carries and overflows                         *)

\* the values of Rn (R1) and of R2, which the second operand is made from
RnSample == {<<0, 0>>, <<0, 1>>, <<32767, 65535>>, <<32768, 0>>, <<65535, 65535>>}

Op2Sample == {<<0, 0>>, <<0, 1>>, <<32768, 0>>, <<65535, 65535>>}

\* bit 25 and bits 11..0: R2, R2 LSR #1 and #0xFF ROR 8
DpOperands == {<<0, 2>>, <<0, 162>>, <<1, 1279>>}

\* N, Z, C, V before the step
DpFlags == {<<FALSE, FALSE, FALSE, FALSE>>, <<TRUE, TRUE, TRUE, TRUE>>,
            <<FALSE, FALSE, TRUE, FALSE>>, <<FALSE, FALSE, FALSE, TRUE>>}

\* <cond AL> 00 I opcode S Rn=R1 Rd=R0 operand
DpWord(opcode, sbit, operand) ==
    W(57344 + operand[1] * 512 + opcode * 32 + sbit * 16 + 1, operand[2])

DpInit ==
    \E opcode \in 0..15, sbit \in 0..1, operand \in DpOperands, rn \in RnSample,
       r2 \in Op2Sample, f \in DpFlags, debug \in BOOLEAN :
        Start([WithFlags(CPU_new, f[1], f[2], f[3], f[4]) EXCEPT !.r[1] = rn, !.r[2] = r2],
              Memory_new(Image(<<DpWord(opcode, sbit, operand), ZERO>>), <<>>),
              debug)

DpNext == Step

SpecDp == DpInit /\ [][DpNext]_vars

\* the carry into bit i of a + b + cin, on bit functions
RECURSIVE CarryInto(_, _, _, _)
CarryInto(a, b, cin, i) ==
    IF i = 0 THEN cin
    ELSE Let(CarryInto(a, b, cin, i - 1), LAMBDA c :
             (a[i - 1] /\ b[i - 1]) \/ (a[i - 1] /\ c) \/ (b[i - 1] /\ c))

\* a + b + cin: the sum, the carry out of bit 31 and the signed overflow
ArchAdd(a, b, cin) ==
    Let([i \in 0..32 |-> CarryInto(a, b, cin, i)], LAMBDA carries :
        [value |-> [i \in 0..31 |-> (a[i] # b[i]) # carries[i]],
         carry |-> carries[32],
         overflow |-> carries[31] # carries[32],
         logical |-> FALSE])

ArchLogical(value) == [value |-> value, carry |-> FALSE, overflow |-> FALSE, logical |-> TRUE]

\* The architecture's result of opcode k on Rn and the shifter operand: a
\* subtraction a - b - borrow is a + NOT b + NOT borrow, whose carry-out is
\* the negation of the unsigned borrow.
ArchAlu(k, rn, op2, cf) ==
    LET not(a) == [i \in 0..31 |-> ~a[i]]
    IN  CASE k = 0 \/ k = 8 -> ArchLogical([i \in 0..31 |-> rn[i] /\ op2[i]])
          [] k = 1 \/ k = 9 -> ArchLogical([i \in 0..31 |-> rn[i] # op2[i]])
          [] k = 2 \/ k = 10 -> ArchAdd(rn, not(op2), TRUE)
          [] k = 3 -> ArchAdd(op2, not(rn), TRUE)
          [] k = 4 \/ k = 11 -> ArchAdd(rn, op2, FALSE)
          [] k = 5 -> ArchAdd(rn, op2, cf)
          [] k = 6 -> ArchAdd(rn, not(op2), cf)
          [] k = 7 -> ArchAdd(op2, not(rn), cf)
          [] k = 12 -> ArchLogical([i \in 0..31 |-> rn[i] \/ op2[i]])
          [] k = 13 -> ArchLogical(op2)
          [] k = 14 -> ArchLogical([i \in 0..31 |-> rn[i] /\ ~op2[i]])
          [] k = 15 -> ArchLogical(not(op2))

\* the fields of a data-processing word
DpOpcode(w) == FieldVal(w, 21, 4)
DpS(w) == Bit(w, 20)
DpRn(w) == FieldVal(w, 16, 4)
DpRd(w) == FieldVal(w, 12, 4)
IsCompare(w) == DpOpcode(w) \in 8..11

\* an ARM data-processing encoding: bits 27..26 zero, not the multiply and
\* extra load/store space, not the miscellaneous space (compare without S)
IsDataProcessing(w) ==
    /\ FieldVal(w, 26, 2) = 0
    /\ ~(~Bit(w, 25) /\ Bit(w, 7) /\ Bit(w, 4))
    /\ ~(IsCompare(w) /\ ~DpS(w))

\* the latest step started in ARM state on a data-processing word over
\* R0..R7 whose condition holds and which is not the S form with Rd = 15
DpStep ==
    /\ obs.op = "cycle"
    /\ ~Bit(obs.pre.cpsr, 5)
    /\ WordBefore.err = ""
    /\ FieldOf(WordBefore.v) # 15
    /\ ArchHolds(WordBefore.v, obs.pre)
    /\ IsDataProcessing(WordBefore.v)
    /\ DpRn(WordBefore.v) < 8 /\ DpRd(WordBefore.v) < 8

\* the architecture's shifter operand and result for the word of the step
DpShifter ==
    ArchShifterOperand(WordBefore.v, obs.pre.r[FieldVal(WordBefore.v, 0, 4)],
                       obs.pre.r[FieldVal(WordBefore.v, 8, 4)], Bit(obs.pre.cpsr, 29))

DpResult ==
    ArchAlu(DpOpcode(WordBefore.v), Vec(obs.pre.r[DpRn(WordBefore.v)]), DpShifter.value,
            Bit(obs.pre.cpsr, 29))

\* C5: a data-processing step leaves CPSR as it was when S is clear; when S
\* is set N is bit 31 of the result, Z is (result = 0), C is the shifter
\* carry-out for the logical opcodes, the carry-out for ADD, ADC, CMN and
\* the negated borrow for SUB, RSB, SBC, RSC, CMP, and V is the signed
\* overflow for the arithmetic opcodes and unchanged for the logical ones.
\* TST, TEQ, CMP, CMN write no register; the others write the result to Rd.
C5_DataProcessingFlags ==
    DpStep =>
        Let(WordBefore.v, LAMBDA w :
        Let(DpShifter, LAMBDA shifter :
        Let(DpResult, LAMBDA result :
            /\ err = ""
            /\ IF DpS(w)
               THEN /\ Bit(cpu.cpsr, 31) = result.value[31]
                    /\ Bit(cpu.cpsr, 30) = (\A i \in 0..31 : ~result.value[i])
                    /\ Bit(cpu.cpsr, 29) = IF result.logical THEN shifter.carry
                                           ELSE result.carry
                    /\ Bit(cpu.cpsr, 28) = IF result.logical THEN Bit(obs.pre.cpsr, 28)
                                           ELSE result.overflow
               ELSE cpu.cpsr = obs.pre.cpsr
            /\ IF IsCompare(w)
               THEN /\ obs.log.writes = <<>>
                    /\ \A i \in 0..14 : cpu.r[i] = obs.pre.r[i]
               ELSE Vec(cpu.r[DpRd(w)]) = result.value)))

\* CMP of equal values: Z = 1, N = 0, C = 1, V = 0
C5_WitnessCmpEqual ==
    /\ DpStep
    /\ DpOpcode(WordBefore.v) = 10
    /\ ~Bit(WordBefore.v, 25) /\ FieldVal(WordBefore.v, 4, 8) = 0
    /\ obs.pre.r[1] = <<32768, 0>> /\ obs.pre.r[2] = <<32768, 0>>
    /\ Bit(cpu.cpsr, 30) /\ ~Bit(cpu.cpsr, 31) /\ Bit(cpu.cpsr, 29) /\ ~Bit(cpu.cpsr, 28)

----------------------------------------------------------------------------
(* One branch: ARM B and BL over a range of offsets, and BX in ARM and in  *)
(* Thumb state, at an address in the BIOS or in work RAM                   *)

Zeros(n) == [i \in 1..n |-> 0]

\* a RAM region holding bytes from index on, and zero elsewhere
Sparse(index, bytes) ==
    [i \in {index + k - 1 : k \in {k \in 1..Len(bytes) : bytes[k] # 0}} |-> bytes[i - index + 1]]

\* memory with bytes at address: in the BIOS image, padded with one word
\* of zeroes, or in work RAM
MemoryWith(address, bytes) ==
    Let(Region(address), LAMBDA g :
        IF g.region = "bios"
        THEN Memory_new(Zeros(g.index) \o bytes \o Zeros(4), <<>>)
        ELSE [Memory_new(<<>>, <<>>) EXCEPT ![g.region] = Sparse(g.index, bytes)])

\* where the branch is: 0x00000100 and 0x02000040
BranchAt == {<<0, 256>>, <<512, 64>>}

\* the 24-bit offset field, as <<high 8 bits, low half>>
OffsetSample == {<<0, 0>>, <<0, 6>>, <<127, 65535>>, <<128, 0>>, <<255, 65534>>, <<255, 65535>>}

\* the register BX names: R0, LR and PC
BxRegs == {0, 14, 15}

\* the value of R0 and LR: Thumb and ARM targets in work RAM and the BIOS
TargetSample == {<<512, 17>>, <<512, 16>>, <<0, 257>>, <<0, 260>>}

BranchModes == {MODE_SVC, MODE_USR}

\* the bytes of a halfword
HalfBytes(h) == <<h % 256, h \div 256>>

BranchCpu(mode, at, target, thumb) ==
        Let(  [cpu |-> set_thumb_state(set_mode(CPU_new, mode), thumb),
               mem |-> <<>>, err |-> "", build |-> [debug |-> FALSE], log |-> EmptyLog], LAMBDA s0 :
    Let(set_r(set_r(s0, 0, target), REGISTER_LR, target), LAMBDA s1 :
        [s1.cpu EXCEPT !.r[REGISTER_PC] = at, !.branch_happened = FALSE]))

BranchInit ==
    \E at \in BranchAt, target \in TargetSample, mode \in BranchModes, debug \in BOOLEAN :
        \/ \E off \in OffsetSample, l \in 0..1 :
              Start(BranchCpu(mode, at, target, FALSE),
                    MemoryWith(at, WordBytes(W(59904 + l * 256 + off[1], off[2]))),
                    debug)
        \/ \E m \in BxRegs :
              Start(BranchCpu(mode, at, target, FALSE),
                    MemoryWith(at, WordBytes(W(57647, 65296 + m))),
                    debug)
        \/ \E m \in BxRegs :
              Start(BranchCpu(mode, at, target, TRUE),
                    MemoryWith(at, HalfBytes(18176 + m * 8)),
                    debug)

BranchNext == Step

SpecBranch == BranchInit /\ [][BranchNext]_vars

\* the halfword the latest step started on
HalfBefore == read_u16(obs.premem, obs.pre.r[15])

\* the latest step started in ARM state on B or BL with a condition
BranchWordBefore ==
    /\ obs.op = "cycle"
    /\ ~Bit(obs.pre.cpsr, 5)
    /\ WordBefore.err = ""
    /\ FieldOf(WordBefore.v) # 15
    /\ FieldVal(WordBefore.v, 25, 3) = 5

\* sign_extend(imm24) << 2 of a branch word, as a function from bit positions
ArchBranchOffset(w) ==
    [i \in 0..31 |-> IF i < 2 THEN FALSE ELSE IF i < 26 THEN Bit(w, i - 2) ELSE Bit(w, 23)]

\* A + 8 + (sign_extend(imm24) << 2) modulo 2^32
ArchBranchTarget(a, w) ==
    ArchAdd(ArchAdd(Vec(a), Vec(U32(8)), FALSE).value, ArchBranchOffset(w), FALSE).value

\* C7: an executed ARM B or BL at address A leaves PC at
\* A + 8 + (sign_extend(imm24) << 2) modulo 2^32; BL leaves A + 4 in LR and
\* B leaves LR as it was.
C7_BranchTarget ==
    (StepExecuted /\ BranchWordBefore) =>
        /\ Vec(cpu.r[15]) = ArchBranchTarget(obs.pre.r[15], WordBefore.v)
        /\ IF Bit(WordBefore.v, 24)
           THEN Vec(get_r(cpu, 14)) = ArchAdd(Vec(obs.pre.r[15]), Vec(U32(4)), FALSE).value
           ELSE /\ get_r(cpu, 14) = get_r(obs.pre, 14)
                /\ \A m \in ValidModes : get_r_in_mode(cpu, 14, m) = get_r_in_mode(obs.pre, 14, m)

\* B with offset field 6 at 0x100 has gone to 0x120
C7_WitnessOffsetSix ==
    /\ StepExecuted
    /\ BranchWordBefore
    /\ ~Bit(WordBefore.v, 24)
    /\ FieldVal(WordBefore.v, 0, 24) = 6
    /\ obs.pre.r[15] = W(0, 256)
    /\ cpu.r[15] = W(0, 288)

\* the latest step started on BX: in ARM state a word of the form
\* cond 0001 0010 1111 1111 1111 0001 Rm, in Thumb state 0100 0111 0 Rm 000
BxBefore ==
    /\ obs.op = "cycle"
    /\ IF Bit(obs.pre.cpsr, 5)
       THEN /\ HalfBefore.err = ""
            /\ HalfBefore.v \div 128 = 142
            /\ HalfBefore.v % 8 = 0
       ELSE /\ WordBefore.err = ""
            /\ FieldOf(WordBefore.v) # 15
            /\ Hi16(WordBefore.v) % 4096 = 303
            /\ Lo16(WordBefore.v) \div 16 = 4081

BxRm == IF Bit(obs.pre.cpsr, 5) THEN (HalfBefore.v \div 8) % 16 ELSE Lo16(WordBefore.v) % 16

\* the value BX reads from Rm: for R15 the address of the BX plus two widths
BxValue ==
    IF BxRm = 15
    THEN ArchAdd(Vec(obs.pre.r[15]), Vec(U32(2 * WidthBefore)), FALSE).value
    ELSE Vec(get_r(obs.pre, BxRm))

BxTarget == [i \in 0..31 |-> i # 0 /\ BxValue[i]]

\* a step follows one that executed BX
AfterBx == StepExecuted /\ BxBefore /\ obs'.steps = obs.steps + 1

\* C8: an executed BX Rm, in ARM or Thumb state, leaves T equal to bit 0 of
\* Rm and PC equal to Rm with bit 0 cleared; the step after it starts by
\* fetching at that address, 16 bits when bit 0 was 1 and 32 bits when it
\* was 0.
C8_BranchExchange ==
    /\ [](StepExecuted /\ BxBefore =>
            /\ Bit(cpu.cpsr, 5) = BxValue[0]
            /\ Vec(cpu.r[15]) = BxTarget)
    /\ [][AfterBx =>
            /\ Vec(obs'.log.fetch.address) = BxTarget
            /\ obs'.log.fetch.width = IF BxValue[0] THEN 16 ELSE 32]_vars

\* the step after a BX to 0x02000011 has fetched 16 bits at 0x02000010
C8_WitnessThumbFetch ==
    /\ obs.op = "cycle"
    /\ obs.steps = 2
    /\ obs.pre.branch_happened
    /\ obs.log.fetch = [address |-> W(512, 16), width |-> 16]

----------------------------------------------------------------------------
(* One ARM LDM or STM, at 0x02000040, over the addressing modes, the W, S  *)
(* and L bits, register lists and base values                              *)

\* register lists: {}, {R1}, {R0, R1}, {R1, R2}, {R2, R5, R14}, {R15}, {R1, R15}
ListSample == {0, 2, 3, 6, 16420, 32768, 32770}

\* the base register: R0 and the banked R13
BaseRegs == {0, 13}

\* the base value: 0x03000100 in on-chip work RAM, and 0 in the BIOS
BaseSample == {<<768, 256>>, <<0, 0>>}

\* bytes of on-chip work RAM around index 0x100, all different from zero
DataBytes == [i \in 232..279 |-> i - 230]

\* a BIOS image of four words
DataBios == <<17, 34, 51, 68, 85, 102, 119, 136, 153, 170, 187, 204, 221, 238, 255, 1>>

\* registers with a different value in each, in the bank of each mode
LsmCpu(mode, n, base) ==
    Let(set_mode(CPU_new, mode), LAMBDA c0 :
        Let(  [c0 EXCEPT !.r = [i \in 0..15 |-> W(4352 + i, i)],
                         !.r_svc = [i \in 0..1 |-> W(8704 + i, i)]], LAMBDA c1 :
    Let([cpu |-> c1, mem |-> <<>>, err |-> "", build |-> [debug |-> FALSE], log |-> EmptyLog], LAMBDA s0 :
        [set_r(s0, n, base).cpu EXCEPT !.r[REGISTER_PC] = W(512, 64), !.branch_happened = FALSE])))

LsmMemory(word) ==
    [Memory_new(DataBios, <<>>) EXCEPT !.wram1 = Sparse(64, WordBytes(word)),
                                      !.wram2 = DataBytes]

LsmInit ==
    \E pu \in 0..3, sb \in 0..1, wb \in 0..1, l \in 0..1, n \in BaseRegs,
       registers \in ListSample, base \in BaseSample, mode \in BranchModes,
       debug \in BOOLEAN :
        Start(LsmCpu(mode, n, base),
              LsmMemory(W(59392 + pu * 128 + sb * 64 + wb * 32 + l * 16 + n, registers)),
              debug)

LsmNext == Step

SpecLsm == LsmInit /\ [][LsmNext]_vars

\* the latest step started in ARM state on a load/store-multiple whose
\* condition held
LsmBefore ==
    /\ obs.op = "cycle"
    /\ ~Bit(obs.pre.cpsr, 5)
    /\ WordBefore.err = ""
    /\ FieldVal(WordBefore.v, 25, 3) = 4
    /\ FieldOf(WordBefore.v) # 15
    /\ ArchHolds(WordBefore.v, obs.pre)

LsmList == {i \in 0..15 : Bit(WordBefore.v, i)}
LsmCount == Cardinality(LsmList)
LsmRn == FieldVal(WordBefore.v, 16, 4)
LsmLoad == Bit(WordBefore.v, 20)
LsmWriteBack == Bit(WordBefore.v, 21)
LsmUp == Bit(WordBefore.v, 23)
LsmPre == Bit(WordBefore.v, 24)

\* a + d modulo 2^32 on functions from bit positions, d a small integer
ArchPlus(a, d) ==
    IF d >= 0 THEN ArchAdd(a, Vec(U32(d)), FALSE).value
    ELSE ArchAdd(a, [i \in 0..31 |-> ~Vec(U32(0 - d))[i]], TRUE).value

\* the value a step reads register i as, in the bank of mode
ValueBefore(i, mode) ==
    IF i = 15 THEN ArchPlus(Vec(obs.pre.r[15]), 2 * WidthBefore)
    ELSE Vec(get_r_in_mode(obs.pre, i, mode))

LsmBase == ValueBefore(LsmRn, get_mode(obs.pre))

\* start_addr of the four addressing modes
LsmStart ==
    ArchPlus(LsmBase,
             IF LsmUp THEN (IF LsmPre THEN 4 ELSE 0)
             ELSE (IF LsmPre THEN 0 - 4 * LsmCount ELSE 4 - 4 * LsmCount))

\* the registers of the list in ascending order
LsmOrder ==
    [j \in 1..LsmCount |-> CHOOSE i \in LsmList : Cardinality({x \in LsmList : x < i}) = j - 1]

\* the word a listed register is transferred to or from
LsmSlot(j) == ArchPlus(LsmStart, 4 * (j - 1))

\* the bank the transfer uses: the S bit selects the user bank
LsmBank == IF Bit(WordBefore.v, 22) THEN MODE_USR ELSE get_mode(obs.pre)

\* the word at address a is in a region that can be read, and written for
\* a store
Transferable(m, a, store) ==
    Let(Region(a), LAMBDA g :
        /\ g.region # "unmapped"
        /\ g.index + 3 < RegionLen(m, g.region)
        /\ store => g.writable)

\* the word of a function from bit positions
WordOf(v) ==
    W(B2N(v[16]) + 2 * B2N(v[17]) + 4 * B2N(v[18]) + 8 * B2N(v[19]) + 16 * B2N(v[20])
        + 32 * B2N(v[21]) + 64 * B2N(v[22]) + 128 * B2N(v[23]) + 256 * B2N(v[24])
        + 512 * B2N(v[25]) + 1024 * B2N(v[26]) + 2048 * B2N(v[27]) + 4096 * B2N(v[28])
        + 8192 * B2N(v[29]) + 16384 * B2N(v[30]) + 32768 * B2N(v[31]),
      B2N(v[0]) + 2 * B2N(v[1]) + 4 * B2N(v[2]) + 8 * B2N(v[3]) + 16 * B2N(v[4])
        + 32 * B2N(v[5]) + 64 * B2N(v[6]) + 128 * B2N(v[7]) + 256 * B2N(v[8])
        + 512 * B2N(v[9]) + 1024 * B2N(v[10]) + 2048 * B2N(v[11]) + 4096 * B2N(v[12])
        + 8192 * B2N(v[13]) + 16384 * B2N(v[14]) + 32768 * B2N(v[15]))

\* the case the claim is about: the base is not in the list, and the words
\* of the transfer are in memory the transfer can use
LsmCase ==
    /\ LsmBefore
    /\ LsmRn \notin LsmList
    /\ \A j \in 1..LsmCount : Transferable(obs.premem, WordOf(LsmSlot(j)), ~LsmLoad)

\* the transfers of a store: the listed registers, in ascending order, each
\* to its word; nothing loaded and no register but Rn and PC changed
LsmStored ==
    /\ obs.log.loads = <<>>
    /\ obs.log.stores =
          [j \in 1..LsmCount |->
              [r |-> LsmOrder[j], address |-> WordOf(LsmSlot(j)),
               value |-> WordOf(ValueBefore(LsmOrder[j], LsmBank))]]
    /\ \A j \in 1..LsmCount :
          Vec(read_u32(mem, WordOf(LsmSlot(j))).v) = ValueBefore(LsmOrder[j], LsmBank)
    /\ \A i \in 0..14 \ {LsmRn}, m \in ValidModes :
          get_r_in_mode(cpu, i, m) = get_r_in_mode(obs.pre, i, m)

\* the transfers of a load: the listed registers, in ascending order, each
\* from its word; memory and the other registers as before
LsmLoaded ==
    /\ obs.log.stores = <<>>
    /\ mem = obs.premem
    /\ obs.log.loads =
          [j \in 1..LsmCount |->
              [r |-> LsmOrder[j], address |-> WordOf(LsmSlot(j)),
               value |-> read_u32(obs.premem, WordOf(LsmSlot(j))).v]]
    /\ \A j \in 1..LsmCount :
          get_r_in_mode(cpu, LsmOrder[j], LsmBank) = read_u32(obs.premem, WordOf(LsmSlot(j))).v
    /\ \A i \in 0..14 \ {LsmRn}, m \in ValidModes :
          (i \notin LsmList \/ StorageOf(i, m) # StorageOf(i, LsmBank))
             => get_r_in_mode(cpu, i, m) = get_r_in_mode(obs.pre, i, m)

\* Rn after the step: B + 4k or B - 4k with write-back, B without
LsmBaseAfter ==
    Vec(get_r(cpu, LsmRn)) =
        IF LsmWriteBack
        THEN ArchPlus(LsmBase, IF LsmUp THEN 4 * LsmCount ELSE 0 - 4 * LsmCount)
        ELSE LsmBase

\* C9: a load/store-multiple whose base Rn is not in its list L transfers
\* exactly the registers of L, in ascending register number, to or from
\* the k consecutive words from start_addr on (B, B+4, B-4k+4, B-4k for IA,
\* IB, DA, DB), and leaves B+4k or B-4k in Rn with write-back and B without.
C9_LoadStoreMultiple ==
    LsmCase =>
        /\ err = ""
        /\ IF LsmLoad THEN LsmLoaded ELSE LsmStored
        /\ LsmBaseAfter

\* what holds of every load/store-multiple but a load with R15 in its list,
\* in a build without overflow checks
LsmWithoutPcLoad ==
    (LsmCase /\ ~(LsmLoad /\ 15 \in LsmList) /\ ~build.debug) =>
        /\ err = ""
        /\ IF LsmLoad THEN LsmLoaded ELSE LsmStored
        /\ LsmBaseAfter

----------------------------------------------------------------------------
(* Thumb PUSH {list, LR} followed by POP {list, PC}, at 0x02000040 *)

\* lists of low registers: {R7}, {}, {R0, R1}, {R0..R7}
LowListSample == {128, 0, 3, 255}

\* SP: 0x03007F00, 0x03000008 and 0x02000100
StackSample == {<<768, 32512>>, <<768, 8>>, <<512, 256>>}

\* LR: 0x08000041, 0x02000081 and 0x02000080
ReturnSample == {<<2048, 65>>, <<512, 129>>, <<512, 128>>}

\* R0..R7 hold 0xAA4E..0xAA55
StackCpu(mode, sp, lr) ==
    Let(set_thumb_state(set_mode(CPU_new, mode), TRUE), LAMBDA c0 :
    Let([c0 EXCEPT !.r = [i \in 0..15 |-> IF i < 8 THEN W(0, 43598 + i) ELSE ZERO]], LAMBDA c1 :
    Let([cpu |-> c1, mem |-> <<>>, err |-> "", build |-> [debug |-> FALSE], log |-> EmptyLog], LAMBDA s0 :
    Let(set_r(set_r(s0, REGISTER_SP, sp), REGISTER_LR, lr), LAMBDA s1 :
        [s1.cpu EXCEPT !.r[REGISTER_PC] = W(512, 64), !.branch_happened = FALSE]))))

StackInit ==
    \E list \in LowListSample, sp \in StackSample, lr \in ReturnSample,
       mode \in BranchModes, debug \in BOOLEAN :
        Start(StackCpu(mode, sp, lr),
              MemoryWith(W(512, 64), HalfBytes(46336 + list) \o HalfBytes(48384 + list)),
              debug)

StackNext == Step

SpecStack == StackInit /\ [][StackNext]_vars

\* the two halfwords the run started on
FirstHalf == read_u16(obs.premem, obs.origin.r[15])
SecondHalf == read_u16(obs.premem, WrappingAdd(obs.origin.r[15], U32(2)))

PushedList == {i \in 0..7 : (FirstHalf.v \div Pow2(i)) % 2 = 1}

\* the words PUSH {list, LR} writes, below SP
PushedSlots ==
    {WordOf(ArchPlus(Vec(get_r(obs.origin, 13)), 0 - 4 * j)) : j \in 1..(Cardinality(PushedList) + 1)}

\* a run of two steps from Thumb state on PUSH {list, LR} and POP {list, PC}
\* (1011 0101 list, 1011 1101 list) with the pushed words in writable RAM
PushPopCase ==
    /\ obs.op = "cycle"
    /\ obs.steps = 2
    /\ Bit(obs.origin.cpsr, 5)
    /\ FirstHalf.err = "" /\ SecondHalf.err = ""
    /\ FirstHalf.v \div 256 = 181
    /\ SecondHalf.v = FirstHalf.v + 2048
    /\ \A a \in PushedSlots : Transferable(obs.premem, a, TRUE)

\* C10: in Thumb state PUSH {list, LR} and then POP {list, PC}, the pushed
\* words in writable RAM, leave SP and the listed registers as they were
\* before the PUSH, T equal to bit 0 of that LR, and PC equal to that LR
\* with bit 0 cleared.
C10_PushPopRoundTrip ==
    PushPopCase =>
        /\ err = ""
        /\ get_r(cpu, 13) = get_r(obs.origin, 13)
        /\ \A i \in PushedList : get_r(cpu, i) = get_r(obs.origin, i)
        /\ Bit(cpu.cpsr, 5) = Bit(get_r(obs.origin, 14), 0)
        /\ Vec(cpu.r[15]) = [i \in 0..31 |-> i # 0 /\ Bit(get_r(obs.origin, 14), i)]

\* PUSH {R7, LR} has stored R7 = 0xAA55 and LR = 0x08000041 below
\* SP = 0x03007F00 and left SP = 0x03007EF8
PushDone ==
    /\ obs.op = "cycle"
    /\ obs.steps = 1
    /\ err = ""
    /\ get_r(obs.pre, 13) = W(768, 32512)
    /\ get_r(cpu, 13) = W(768, 32504)
    /\ read_u32(mem, W(768, 32504)).v = W(0, 43605)
    /\ read_u32(mem, W(768, 32508)).v = W(2048, 65)

----------------------------------------------------------------------------
(* One ARM LDR or LDRB with an immediate offset, at 0x02000040, with       *)
(* R0 = 0x03000100 as base: every indexing mode and every alignment of the *)
(* address                                                                 *)

LdrInit ==
    \E p \in 0..1, u \in 0..1, b \in 0..1, w \in 0..1, d \in {1, 2}, imm \in 0..7,
       mode \in BranchModes, debug \in BOOLEAN :
        Start(LsmCpu(mode, 0, W(768, 256)),
              LsmMemory(W(58384 + p * 256 + u * 128 + b * 64 + w * 32, d * 4096 + imm)),
              debug)

LdrNext == Step

SpecLdr == LdrInit /\ [][LdrNext]_vars

\* the latest step started in ARM state on a word load with an immediate
\* offset (cond 01 0 P U 0 W 1 Rn Rd imm12) whose condition held
LdrBefore ==
    /\ obs.op = "cycle"
    /\ ~Bit(obs.pre.cpsr, 5)
    /\ WordBefore.err = ""
    /\ FieldVal(WordBefore.v, 25, 3) = 2
    /\ Bit(WordBefore.v, 20)
    /\ ~Bit(WordBefore.v, 22)
    /\ FieldOf(WordBefore.v) # 15
    /\ ArchHolds(WordBefore.v, obs.pre)

LdrRd == FieldVal(WordBefore.v, 12, 4)
LdrRn == FieldVal(WordBefore.v, 16, 4)

\* the effective address: Rn +/- imm12 when P is set, Rn when it is clear
LdrAddress ==
    IF Bit(WordBefore.v, 24)
    THEN ArchPlus(ValueBefore(LdrRn, get_mode(obs.pre)),
                  IF Bit(WordBefore.v, 23) THEN FieldVal(WordBefore.v, 0, 12)
                  ELSE 0 - FieldVal(WordBefore.v, 0, 12))
    ELSE ValueBefore(LdrRn, get_mode(obs.pre))

\* the address with its low two bits cleared
LdrAligned == WordOf([i \in 0..31 |-> i >= 2 /\ LdrAddress[i]])

\* the little-endian word at the aligned address, byte by byte
LdrAlignedWord ==
    [i \in 0..31 |->
        (read_u8(obs.premem, WordOf(ArchPlus(Vec(LdrAligned), i \div 8))).v \div Pow2(i % 8)) % 2 = 1]

\* 8 * (address mod 4)
LdrRotation == 8 * (B2N(LdrAddress[0]) + 2 * B2N(LdrAddress[1]))

\* a word load into a register other than Rn and PC, of a word of readable
\* memory
LdrCase ==
    /\ LdrBefore
    /\ LdrRd \notin {LdrRn, 15}
    /\ LdrRn # 15
    /\ Transferable(obs.premem, LdrAligned, FALSE)

\* C11: a word load from an address that is not a multiple of 4 leaves in
\* Rd the word at the address with its low two bits cleared, rotated right
\* by 8 * (address mod 4); from an aligned address, the little-endian word
\* at the address.
C11_WordLoadRotation ==
    LdrCase =>
        /\ err = ""
        /\ Vec(get_r(cpu, LdrRd)) = [i \in 0..31 |-> LdrAlignedWord[(i + LdrRotation) % 32]]

\* what holds of the word loads from a multiple of 4
LdrFromAligned ==
    (LdrCase /\ LdrRotation = 0) =>
        /\ err = ""
        /\ Vec(get_r(cpu, LdrRd)) = LdrAlignedWord

\* what the code does for every address: the four bytes from the address on
LdrFromAddress ==
    LdrCase =>
        /\ err = ""
        /\ Vec(get_r(cpu, LdrRd)) =
              [i \in 0..31 |->
                  (read_u8(obs.premem, WordOf(ArchPlus(LdrAddress, i \div 8))).v \div Pow2(i % 8)) % 2 = 1]

----------------------------------------------------------------------------
(* InstructionLut::decode_arm on its own: one word for every index of the  *)
(* table, with the bits outside the index drawn from a sample              *)

\* bits 19..16, 15..8 and 3..0 of the word: all clear, all set, and
\* 15..12 set with Rm = R1
RestSample == {<<0, 0, 0>>, <<15, 255, 15>>, <<0, 240, 1>>}

\* condition AL, bits 27..20 and 7..4 from the index
WordAt(index, rest) ==
    W(57344 + (index \div 16) * 16 + rest[1], rest[2] * 256 + (index % 16) * 16 + rest[3])

DecodeInit ==
    \E index \in 0..4095, rest \in RestSample, debug \in BOOLEAN :
        /\ cpu = CPU_new
        /\ mem = Memory_new(<<>>, <<>>)
        /\ err = ""
        /\ build = [debug |-> debug]
        /\ obs = [op |-> "new", instruction |-> WordAt(index, rest)]

\* a call of InstructionLut::decode_arm: a panic of the decoder is the
\* thread's panic
DecodeArm ==
    /\ obs.op = "new"
    /\ Let(InstructionLut_decode_arm(obs.instruction, build.debug), LAMBDA decoded :
           /\ err' = IF decoded.kind = "panic" THEN decoded.msg ELSE ""
           /\ obs' = [op |-> "decode_arm", instruction |-> obs.instruction,
                      decoded |-> decoded])
    /\ UNCHANGED <<cpu, mem, build>>

DecodeNext == DecodeArm

SpecDecode == DecodeInit /\ [][DecodeNext]_vars

\* C12: for every ARM word, looking up the table and calling the selected
\* decoder returns a decoded operation (possibly Unknown) and raises no
\* error.
C12_ArmDecodeTotal ==
    obs.op = "decode_arm" => (err = "" /\ obs.decoded.kind # "panic")

\* what holds of the words whose table entry is not decode_extra_arm or
\* msr::decode_arm
DecodeTotalElsewhere ==
    (/\ obs.op = "decode_arm"
     /\ decoders_arm(index_arm(obs.instruction))
           \notin {"load_store::decode_extra_arm", "ctrl_ext::msr::decode_arm"})
        => (err = "" /\ obs.decoded.kind # "panic")

----------------------------------------------------------------------------
(* One ARM MSR with a register operand (cond 00010 R 10 mask 1111 0000     *)
(* 0000 Rm, Rm = R1) at 0x02000040: both targets, every field mask, in     *)
(* user, system, supervisor and IRQ mode                                   *)

\* operands: 0x00000010 and 0x00000000 (I and F clear), 0x000000D1 and
\* 0xF000001F (other modes), 0xA0000012 (flags and mode), 0x00000030 and
\* 0x60000033 (T set), 0x00000100 and 0x08000010 (reserved bits)
MsrOperands ==
    { <<0, 16>>, <<0, 0>>, <<0, 209>>, <<61440, 31>>, <<40960, 18>>,
      <<0, 48>>, <<24576, 51>>, <<0, 256>>, <<2048, 16>> }

MsrModes == {MODE_USR, MODE_SYS, MODE_SVC, MODE_IRQ}

\* the flags the machine starts with: none, or N and C
MsrCpu(mode, operand, flagged) ==
    Let(WithFlags(set_mode(CPU_new, mode), flagged, FALSE, flagged, FALSE), LAMBDA c0 :
        [c0 EXCEPT !.r = [i \in 0..15 |-> CASE i = 1 -> W(operand[1], operand[2])
                                            [] i = 15 -> W(512, 64)
                                            [] OTHER -> ZERO],
                   !.spsr_svc = W(16384, 18),
                   !.spsr_irq = W(8192, 147)])

MsrInit ==
    \E r \in 0..1, field_mask \in 0..15, operand \in MsrOperands, mode \in MsrModes,
       flagged \in BOOLEAN, debug \in BOOLEAN :
        Start(MsrCpu(mode, operand, flagged),
              MemoryWith(W(512, 64), WordBytes(W(57632 + r * 64 + field_mask, 61441))),
              debug)

MsrNext == Step

SpecMsr == MsrInit /\ [][MsrNext]_vars

\* the latest step started in ARM state on an MSR with a register operand
\* whose condition held
MsrBefore ==
    /\ obs.op = "cycle"
    /\ ~Bit(obs.pre.cpsr, 5)
    /\ WordBefore.err = ""
    /\ FieldVal(WordBefore.v, 20, 8) \in {18, 22}
    /\ FieldVal(WordBefore.v, 4, 8) = 0
    /\ FieldVal(WordBefore.v, 0, 4) # 15
    /\ FieldOf(WordBefore.v) # 15
    /\ ArchHolds(WordBefore.v, obs.pre)

MsrToSpsr == Bit(WordBefore.v, 22)
MsrOperand == get_r_in_mode(obs.pre, FieldVal(WordBefore.v, 0, 4), get_mode(obs.pre))
MsrModeBefore == FieldVal(obs.pre.cpsr, 0, 5)

\* bit 5 of the operand, and any of its bits 27..8
MsrOperandT == Bit(MsrOperand, 5)
MsrOperandReserved == \E i \in 8..27 : Bit(MsrOperand, i)

\* bits 7..0 other than T
ControlBits == {0, 1, 2, 3, 4, 6, 7}

SpsrFields == {"spsr_svc", "spsr_abt", "spsr_und", "spsr_irq", "spsr_fiq"}

\* CPSR and every SPSR are as the step found them
StatusUnchanged ==
    /\ cpu.cpsr = obs.pre.cpsr
    /\ \A f \in SpsrFields : cpu[f] = obs.pre[f]

\* C13: in a privileged mode an MSR to CPSR with field-mask bit 0 and an
\* operand whose T bit and reserved bits are clear sets I (bit 7), F (bit 6)
\* and the five mode bits of CPSR to the operand's bits.
C13_PrivilegedControlWrite ==
    (/\ MsrBefore
     /\ ~MsrToSpsr
     /\ MsrModeBefore # MODE_USR
     /\ Bit(WordBefore.v, 16)
     /\ ~MsrOperandT
     /\ ~MsrOperandReserved)
        => /\ err = ""
           /\ \A i \in ControlBits : Bit(cpu.cpsr, i) = Bit(MsrOperand, i)

\* what the code does in that case: bits 3..0 are the operand's, and bits
\* 7..4 are as before
PrivilegedLowNibbleWrite ==
    (/\ MsrBefore
     /\ ~MsrToSpsr
     /\ MsrModeBefore # MODE_USR
     /\ Bit(WordBefore.v, 16)
     /\ ~MsrOperandT
     /\ ~MsrOperandReserved)
        => /\ err = ""
           /\ \A i \in 0..3 : Bit(cpu.cpsr, i) = Bit(MsrOperand, i)
           /\ \A i \in 4..7 : Bit(cpu.cpsr, i) = Bit(obs.pre.cpsr, i)

\* C14: in USR mode an MSR to CPSR that completes leaves CPSR bits 27..0 as
\* they were, for every operand and field mask, and leaves the flag bits as
\* they were too when field-mask bit 3 is clear.
C14_UserWritesFlagsOnly ==
    (/\ MsrBefore
     /\ ~MsrToSpsr
     /\ MsrModeBefore = MODE_USR
     /\ err = "")
        => /\ \A i \in 0..27 : Bit(cpu.cpsr, i) = Bit(obs.pre.cpsr, i)
           /\ ~Bit(WordBefore.v, 19) => cpu.cpsr = obs.pre.cpsr

\* MSR CPSR_fc, R1 in USR mode with R1 = 0xF000001F: the flags are written,
\* and the mode bits of the operand (SYS) are not
C14_WitnessFlagsWritten ==
    /\ MsrBefore
    /\ ~MsrToSpsr
    /\ MsrModeBefore = MODE_USR
    /\ err = ""
    /\ FieldVal(WordBefore.v, 16, 4) = 9
    /\ MsrOperand = W(61440, 31)
    /\ FieldVal(cpu.cpsr, 28, 4) = 15
    /\ FieldVal(obs.pre.cpsr, 28, 4) # 15
    /\ FieldVal(cpu.cpsr, 0, 5) = MODE_USR

\* the cases in which the code reports an error: reserved bits in the
\* operand, the T bit in a write to CPSR from a privileged mode, and a write
\* to SPSR from USR or SYS mode
MsrRejected ==
    \/ MsrOperandReserved
    \/ (~MsrToSpsr /\ MsrModeBefore # MODE_USR /\ MsrOperandT)
    \/ (MsrToSpsr /\ MsrModeBefore \in {MODE_USR, MODE_SYS})

C15_WitnessRejected ==
    /\ MsrBefore
    /\ ~MsrToSpsr
    /\ MsrModeBefore = MODE_SVC
    /\ MsrOperand = W(0, 48)
    /\ err # ""
    /\ StatusUnchanged

----------------------------------------------------------------------------
(* The MSR with an immediate operand (bits 27..20 = 00110R10) in the table *)

\* the decoded word is an MSR with an immediate operand
ImmediateMsrWord ==
    /\ obs.op = "decode_arm"
    /\ FieldVal(obs.instruction, 23, 5) = 6
    /\ FieldVal(obs.instruction, 20, 2) = 2

\* the 8-bit immediate rotated right by twice the rotate field
ImmediateMsrOperand ==
    [i \in 0..31 |->
        /\ (i + 2 * FieldVal(obs.instruction, 8, 4)) % 32 < 8
        /\ Bit(obs.instruction, (i + 2 * FieldVal(obs.instruction, 8, 4)) % 32)]

\* C16: an ARM MSR with an immediate operand decodes to a status-move
\* operation, not Unknown, whose operand is the 8-bit immediate rotated
\* right by twice the rotate field and whose field mask and target are
\* those of the word.
C16_ImmediateMsrDecodes ==
    ImmediateMsrWord =>
        /\ err = ""
        /\ obs.decoded.kind = "Msr"
        /\ obs.decoded.mode.operand = "Immediate"
        /\ Vec(obs.decoded.mode.imm) = ImmediateMsrOperand
        /\ obs.decoded.field_mask = FieldVal(obs.instruction, 16, 4)
        /\ obs.decoded.r = Bit(obs.instruction, 22)

\* what the table holds for these words: the Unknown decoder
ImmediateMsrUnknown ==
    ImmediateMsrWord =>
        /\ decoders_arm(index_arm(obs.instruction)) = "UnknownInstruction::decode_arm"
        /\ obs.decoded.kind = "Unknown"

----------------------------------------------------------------------------
(* The memory bus on its own: a Memory built from a BIOS image and a       *)
(* cartridge image, and calls of write_u8, write_u16, write_u32 and the    *)
(* reads on it.  err is the panic of the latest call, "" when it returned; *)
(* a panic unwinds out of the call and leaves the Memory as the call left  *)
(* it, so later calls are explored after a failed one too.                 *)

\* the most calls made on one Memory
MaxOps == 2

\* addresses at the start, the end and the mirrors of every region
BusAddresses ==
    { <<0, 0>>, <<0, 2>>, <<0, 16383>>,                       \* BIOS
      <<256, 0>>,                                             \* not used
      <<512, 0>>, <<515, 65535>>, <<516, 0>>, <<767, 65535>>, \* on-board work RAM
      <<768, 0>>, <<768, 2048>>, <<768, 32767>>, <<768, 32768>>, \* on-chip work RAM
      <<1024, 0>>, <<1024, 1022>>,                            \* I/O registers
      <<1280, 0>>, <<1280, 1022>>, <<1280, 1024>>,            \* palette RAM
      <<1536, 0>>, <<1537, 0>>, <<1537, 32766>>, <<1537, 32768>>,
      <<1537, 65534>>, <<1538, 0>>, <<1539, 32768>>,          \* video RAM
      <<1792, 0>>,                                            \* OAM
      <<2048, 0>>, <<2048, 2>>, <<2559, 65535>>, <<2560, 0>>,
      <<3072, 0>> }                                           \* cartridge

\* 16-bit values with two different non-zero bytes
ValueSample == {48879, 4660}

\* the cartridge image
DataRom == <<222, 173, 190, 239>>

BusInit ==
    \E bios \in {DataBios, <<1, 2, 3, 4>>} :
        /\ cpu = CPU_new
        /\ mem = Memory_new(bios, DataRom)
        /\ err = ""
        /\ build = [debug |-> FALSE]
        /\ obs = [op |-> "new", steps |-> 0, address |-> ZERO, value |-> ZERO,
                  premem |-> Memory_new(bios, DataRom), origin |-> Memory_new(bios, DataRom)]

\* the machine a call starts from
BusMachine == [Machine EXCEPT !.err = ""]

AfterWrite(op, address, value, s) ==
    /\ mem' = s.mem
    /\ err' = s.err
    /\ obs' = [op |-> op, steps |-> obs.steps + 1, address |-> address, value |-> value,
               premem |-> mem, origin |-> obs.origin]
    /\ UNCHANGED <<cpu, build>>

Write8 ==
    /\ obs.steps < MaxOps
    /\ \E a \in BusAddresses, v \in ValueSample :
          AfterWrite("write_u8", W(a[1], a[2]), U32(v % 256),
                     write_u8(BusMachine, W(a[1], a[2]), v % 256))

Write16 ==
    /\ obs.steps < MaxOps
    /\ \E a \in BusAddresses, v \in ValueSample :
          AfterWrite("write_u16", W(a[1], a[2]), U32(v),
                     write_u16(BusMachine, W(a[1], a[2]), v))

Write32 ==
    /\ obs.steps < MaxOps
    /\ \E a \in BusAddresses, v \in ValueSample :
          AfterWrite("write_u32", W(a[1], a[2]), W(v, 65535 - v),
                     write_u32(BusMachine, W(a[1], a[2]), W(v, 65535 - v)))

\* read_u8, read_u16 or read_u32: the value read is kept in obs
Read ==
    /\ obs.steps < MaxOps
    /\ \E a \in BusAddresses, width \in {8, 16, 32} :
          Let(CASE width = 8 -> read_u8(mem, W(a[1], a[2]))
                [] width = 16 -> read_u16(mem, W(a[1], a[2]))
                [] width = 32 -> read_u32(mem, W(a[1], a[2])), LAMBDA rd :
              /\ err' = rd.err
              /\ obs' = [op |-> "read", steps |-> obs.steps + 1, address |-> W(a[1], a[2]),
                         value |-> IF width = 32 THEN rd.v ELSE U32(rd.v),
                         premem |-> mem, origin |-> obs.origin])
    /\ UNCHANGED <<cpu, mem, build>>

BusNext == Write8 \/ Write16 \/ Write32 \/ Read

SpecBus == BusInit /\ [][BusNext]_vars

\* the latest call was a write
Wrote == obs.op \in {"write_u8", "write_u16", "write_u32"}

\* the address one byte on
NextByte(address) == WordOf(ArchPlus(Vec(address), 1))

\* the writable regions of the memory map: the work RAM, palette and video
\* RAM windows, the I/O registers 0x04000000..=0x040003FE and the OAM
\* 0x07000000..=0x070003FF
WritableMapped(address) ==
    \/ Hi16(address) \in 512..1023
    \/ Hi16(address) = 1024 /\ Lo16(address) <= 1022
    \/ Hi16(address) \in 1280..1791
    \/ Hi16(address) = 1792 /\ Lo16(address) <= 1023

\* C17: for every address a of a writable mapped region and every 16-bit
\* value v, write16(a, v) completes without error and a read16(a) that
\* follows it returns v.
C17_Write16ReadBack ==
    (obs.op = "write_u16" /\ WritableMapped(obs.address)) =>
        /\ err = ""
        /\ read_u16(mem, obs.address) = [err |-> "", v |-> Lo16(obs.value)]

\* what holds where both bytes of the halfword are in rows of the table
\* that are writable
Write16WhereBothBytesMapped ==
    (/\ obs.op = "write_u16"
     /\ Region(obs.address).writable
     /\ Region(NextByte(obs.address)).writable) =>
        /\ err = ""
        /\ read_u16(mem, obs.address) = [err |-> "", v |-> Lo16(obs.value)]

\* the BIOS range 0x00000000..=0x00003FFF and the cartridge ROM range
\* 0x08000000..=0x09FFFFFF
InBios(address) == Hi16(address) = 0 /\ Lo16(address) <= 16383
InRom(address) == Hi16(address) \in 2048..2559

\* C18: every write8, write16 or write32 whose first byte is in the BIOS
\* range or the cartridge ROM range is a read-only error, and after any
\* sequence of bus calls, failing ones included, every BIOS and ROM byte is
\* the byte of the image the Memory was built from.
C18_RomImmutable ==
    /\ (Wrote /\ (InBios(obs.address) \/ InRom(obs.address)))
          => err = "Write to read-only address"
    /\ mem.bios = obs.origin.bios
    /\ mem.game_pak = obs.origin.game_pak
    /\ \A i \in 1..Len(obs.origin.bios) :
          read_u8(mem, W(0, i - 1)) = [err |-> "", v |-> obs.origin.bios[i]]
    /\ \A i \in 1..Len(obs.origin.game_pak) :
          read_u8(mem, W(2048, i - 1)) = [err |-> "", v |-> obs.origin.game_pak[i]]

\* a write32 into the cartridge ROM has failed, after an earlier call that
\* changed RAM
C18_WitnessRomWriteAfterRamWrite ==
    /\ obs.steps = 2
    /\ obs.op = "write_u32"
    /\ obs.address = W(2048, 2)
    /\ err = "Write to read-only address"
    /\ obs.premem # obs.origin
    /\ mem = obs.premem

\* the offset of a video RAM address in its 128 KiB window
VramOffset(address) == ((Hi16(address) - 1536) % 2) * 65536 + Lo16(address)

\* the byte of the 96 KiB extent an offset stands for: the top 32 KiB
\* folded onto 0x10000..0x17FFF
VramFolded(offset) == IF offset >= 98304 THEN offset - 32768 ELSE offset

\* C19: in every 128 KiB window of the video RAM area, offset 0x18000 + k
\* addresses the byte of offset 0x10000 + k, for k in 0..0x8000, and the
\* offsets below 0x18000 address themselves.
C19_VramFold ==
    (obs.op = "write_u16" /\ Hi16(obs.address) \in 1536..1791 /\ err = "") =>
        /\ Region(obs.address).index = VramFolded(VramOffset(obs.address))
        /\ read_u8(mem, W(1536 + VramFolded(VramOffset(obs.address)) \div 65536,
                          VramFolded(VramOffset(obs.address)) % 65536))
              = [err |-> "", v |-> Lo16(obs.value) % 256]

\* what the code does: the top 32 KiB folded onto 0x00000..0x07FFF
VramFoldToStart ==
    (obs.op = "write_u16" /\ Hi16(obs.address) \in 1536..1791 /\ err = "") =>
        /\ Region(obs.address).index =
              IF VramOffset(obs.address) >= 98304 THEN VramOffset(obs.address) - 98304
              ELSE VramOffset(obs.address)
        /\ VramOffset(obs.address) >= 98304 =>
              read_u8(mem, W(1536, VramOffset(obs.address) - 98304))
                 = [err |-> "", v |-> Lo16(obs.value) % 256]

\* the windows that wrap, and the physical size of each: 256 KiB, 32 KiB
\* and 1 KiB
WrapWindow(address) ==
    CASE Hi16(address) \in 512..767 -> [base |-> 512, size |-> 262144]
      [] Hi16(address) \in 768..1023 -> [base |-> 768, size |-> 32768]
      [] Hi16(address) \in 1280..1535 -> [base |-> 1280, size |-> 1024]
      [] OTHER -> [base |-> 0, size |-> 0]

\* offsets from the window base congruent modulo the size; the offsets of
\* one window differ by less than 2^24
Congruent(a, b) ==
    /\ WrapWindow(a) = WrapWindow(b)
    /\ ((Hi16(a) - WrapWindow(a).base) * 65536 + Lo16(a)) % WrapWindow(a).size
          = ((Hi16(b) - WrapWindow(b).base) * 65536 + Lo16(b)) % WrapWindow(b).size

\* two addresses address the same byte
SameByte(a, b) ==
    /\ Region(a).region = Region(b).region
    /\ Region(a).index = Region(b).index

\* C20: in the 0x02, 0x03 and 0x05 windows two addresses of one window
\* address the same byte if and only if their offsets are congruent modulo
\* the physical size (256 KiB, 32 KiB, 1 KiB): a halfword written at one is
\* read at the other exactly then.
C20_WindowsWrap ==
    (obs.op = "write_u16" /\ WrapWindow(obs.address).size # 0 /\ err = "") =>
        \A b \in BusAddresses :
            WrapWindow(W(b[1], b[2])) = WrapWindow(obs.address) =>
                /\ SameByte(obs.address, W(b[1], b[2])) <=> Congruent(obs.address, W(b[1], b[2]))
                /\ Congruent(obs.address, W(b[1], b[2])) =>
                      read_u8(mem, W(b[1], b[2])) = [err |-> "", v |-> Lo16(obs.value) % 256]

\* what holds of the 0x02 and 0x05 windows
WindowsWrapButOnChip ==
    (/\ obs.op = "write_u16"
     /\ WrapWindow(obs.address).size # 0
     /\ Hi16(obs.address) \notin 768..1023
     /\ err = "") =>
        \A b \in BusAddresses :
            WrapWindow(W(b[1], b[2])) = WrapWindow(obs.address) =>
                /\ SameByte(obs.address, W(b[1], b[2])) <=> Congruent(obs.address, W(b[1], b[2]))
                /\ Congruent(obs.address, W(b[1], b[2])) =>
                      read_u8(mem, W(b[1], b[2])) = [err |-> "", v |-> Lo16(obs.value) % 256]

\* the bases of the three cartridge ROM mirrors: 0x08000000, 0x0A000000 and
\* 0x0C000000
RomBases == {2048, 2560, 3072}

\* C21: for every offset k inside the cartridge image, read8 at 0x08000000
\* + k, 0x0A000000 + k and 0x0C000000 + k succeeds and returns image[k].
C21_RomMirrors ==
    \A base \in RomBases, k \in 0..(Len(obs.origin.game_pak) - 1) :
        read_u8(mem, W(base, k)) = [err |-> "", v |-> obs.origin.game_pak[k + 1]]

\* what holds of the one base the table has a row for, and of a read8 the
\* bus has made at another
RomAtFirstBaseOnly ==
    /\ \A k \in 0..(Len(obs.origin.game_pak) - 1) :
          read_u8(mem, W(2048, k)) = [err |-> "", v |-> obs.origin.game_pak[k + 1]]
    /\ (obs.op = "read" /\ Hi16(obs.address) \in {2560, 3072})
          => err = "Read from unmapped address"

----------------------------------------------------------------------------
(* add_with_flags, sub_with_flags and their carry forms on their own *)

\* operands at the edges of the unsigned and of the signed range, and on
\* both sides of the limb boundary
FlagSample ==
    { <<0, 0>>, <<0, 1>>, <<0, 2>>, <<0, 65535>>, <<1, 0>>, <<32767, 65535>>,
      <<32767, 65534>>, <<32768, 0>>, <<32768, 1>>, <<65535, 65535>>, <<65535, 65534>>,
      <<4660, 22136>> }

FlagsInit ==
    \E a \in FlagSample, b \in FlagSample, carry \in BOOLEAN :
        /\ cpu = CPU_new
        /\ mem = Memory_new(<<>>, <<>>)
        /\ err = ""
        /\ build = [debug |-> FALSE]
        /\ obs = [op |-> "input", a |-> W(a[1], a[2]), b |-> W(b[1], b[2]), carry |-> carry]

\* the four calls on one pair of operands
ApplyFlags ==
    /\ obs.op = "input"
    /\ obs' = [op |-> "flags", a |-> obs.a, b |-> obs.b, carry |-> obs.carry,
               add |-> add_with_flags(obs.a, obs.b),
               sub |-> sub_with_flags(obs.a, obs.b),
               add_carry |-> add_with_flags_carry(obs.a, obs.b, obs.carry),
               sub_carry |-> sub_with_flags_carry(obs.a, obs.b, obs.carry)]
    /\ UNCHANGED <<cpu, mem, err, build>>

FlagsNext == ApplyFlags

SpecFlags == FlagsInit /\ [][FlagsNext]_vars

\* NOT on functions from bit positions
VecNot(a) == [i \in 0..31 |-> ~a[i]]

\* a + b + c: (the sum modulo 2^32, a + b + c >= 2^32, signed overflow)
ArchSum(a, b, c) ==
    <<WordOf(ArchAdd(Vec(a), Vec(b), c).value),
      ArchAdd(Vec(a), Vec(b), c).carry,
      ArchAdd(Vec(a), Vec(b), c).overflow>>

\* a - b - c, as a + NOT b + 1 - c: (the difference modulo 2^32, the borrow
\* a < b + c, signed overflow)
ArchDifference(a, b, c) ==
    <<WordOf(ArchAdd(Vec(a), VecNot(Vec(b)), ~c).value),
      ~ArchAdd(Vec(a), VecNot(Vec(b)), ~c).carry,
      ArchAdd(Vec(a), VecNot(Vec(b)), ~c).overflow>>

\* C22: add_with_flags_carry(a, b, c) is ((a + b + c) mod 2^32, a + b + c >=
\* 2^32, signed overflow of a + b + c), sub_with_flags_carry(a, b, c) is
\* ((a - b - c) mod 2^32, a < b + c, signed overflow of a - b - c), and
\* add_with_flags and sub_with_flags are the carry forms with c = 0.
C22_FlagArithmetic ==
    obs.op = "flags" =>
        /\ obs.add_carry = ArchSum(obs.a, obs.b, obs.carry)
        /\ obs.sub_carry = ArchDifference(obs.a, obs.b, obs.carry)
        /\ obs.add = ArchSum(obs.a, obs.b, FALSE)
        /\ obs.sub = ArchDifference(obs.a, obs.b, FALSE)
        /\ obs.add = add_with_flags_carry(obs.a, obs.b, FALSE)
        /\ obs.sub = sub_with_flags_carry(obs.a, obs.b, FALSE)

\* 0x80000000 - 0 - 1 = 0x7FFFFFFF: no borrow, and signed overflow that the
\* borrow-in alone causes
C22_WitnessBorrowInOverflows ==
    /\ obs.op = "flags"
    /\ obs.a = W(32768, 0)
    /\ obs.b = ZERO
    /\ obs.carry
    /\ obs.sub_carry = <<W(32767, 65535), FALSE, TRUE>>
    /\ obs.sub = <<W(32768, 0), FALSE, FALSE>>

----------------------------------------------------------------------------
(* get_bits32 and set_bits32 on their own: every field of a word *)

BitWords == {<<0, 0>>, <<65535, 65535>>, <<4660, 22136>>, <<32768, 1>>}

BitsInit ==
    \E w \in BitWords, l \in 0..31, n \in 1..32, debug \in BOOLEAN :
        /\ l + n <= 32
        /\ cpu = CPU_new
        /\ mem = Memory_new(<<>>, <<>>)
        /\ err = ""
        /\ build = [debug |-> debug]
        /\ obs = [op |-> "input", w |-> W(w[1], w[2]), l |-> l, n |-> n]

\* get_bits32(w, l, n) and set_bits32(w, l, n, that field).  `1u32 << len`
\* with len = 32 panics in a build with overflow checks and shifts by
\* len % 32 in one without.
ApplyBits ==
    /\ obs.op = "input"
    /\ Let(get_bits32(obs.w, obs.l, obs.n), LAMBDA field :
           /\ err' = IF build.debug /\ obs.n >= 32
                     THEN "attempt to shift left with overflow" ELSE ""
           /\ obs' = [op |-> "bits", w |-> obs.w, l |-> obs.l, n |-> obs.n,
                      field |-> field,
                      written |-> set_bits32(obs.w, obs.l, obs.n, field)])
    /\ UNCHANGED <<cpu, mem, build>>

BitsNext == ApplyBits

SpecBits == BitsInit /\ [][BitsNext]_vars

\* the n-bit field of w starting at bit l
ArchField(w, l, n) == [i \in 0..31 |-> i < n /\ Bit(w, (i + l) % 32)]

\* C23: for every word w, lsb l and length n with 1 <= n and l + n <= 32,
\* n = 32 with l = 0 included, get_bits32(w, l, n) returns the n-bit field
\* of w at bit l without error, and set_bits32 of that field gives w back.
C23_FieldRoundTrip ==
    obs.op = "bits" =>
        /\ err = ""
        /\ Vec(obs.field) = ArchField(obs.w, obs.l, obs.n)
        /\ obs.written = obs.w

\* what holds of the fields of fewer than 32 bits
FieldsBelowFullWidth ==
    (obs.op = "bits" /\ obs.n < 32) =>
        /\ err = ""
        /\ Vec(obs.field) = ArchField(obs.w, obs.l, obs.n)
        /\ obs.written = obs.w

\* what the code does for the 32-bit field: a panic with overflow checks,
\* and the field 0 without
FullWidthField ==
    (obs.op = "bits" /\ obs.n = 32) =>
        IF build.debug THEN err # "" ELSE obs.field = ZERO /\ obs.written = obs.w

----------------------------------------------------------------------------
(* The mode field of CPSR over runs from reset *)

\* ARM words of the programs that move values into CPSR and SPSR
ModePool ==
    { <<58272, 4100>>,   \* E3A01004  MOV R1, #4
      <<58272, 4127>>,   \* E3A0101F  MOV R1, #0x1F
      <<57633, 61440>>,  \* E121F000  MSR CPSR_c, R0
      <<57633, 61441>>,  \* E121F001  MSR CPSR_c, R1
      <<57641, 61441>>,  \* E129F001  MSR CPSR_fc, R1
      <<57697, 61441>>,  \* E161F001  MSR SPSR_c, R1
      <<57615, 0>>,      \* E10F0000  MRS R0, CPSR
      <<58288, 8192>>,   \* E3B02000  MOVS R2, #0
      <<57760, 1>> }     \* E1A00001  MOV R0, R1

ModePrograms == [1..ProgLen -> ModePool]

ModeInit ==
    \E prog \in ModePrograms, debug \in BOOLEAN :
        Start(CPU_new, Memory_new(BiosOf(prog), <<>>), debug)

ModeNext == Cycle

SpecMode == ModeInit /\ [][ModeNext]_vars

\* C24: after any sequence of steps from the reset state the CPSR mode
\* field is one of the seven defined mode codes, so no register, SPSR or
\* status access fails with an invalid-mode error.
C24_ModeAlwaysValid ==
    /\ get_mode(cpu) \in ValidModes
    /\ err # "Invalid mode"

\* what does hold: bit 4 of CPSR stays set, so the field is in 0x10..0x1F
ModeBitFourStays == get_mode(cpu) \in 16..31

\* the latest step changed CPSR bits 4..0
ModeChanged == obs.op = "cycle" /\ get_mode(cpu) # get_mode(obs.pre)

\* C25: after reset the CPSR mode field changes only in a step that
\* executes an MSR to CPSR in a privileged mode, and once the processor is
\* in USR mode no step changes the mode again.
C25_ModeChangesByPrivilegedMsr ==
    /\ ModeChanged => (MsrBefore /\ ~MsrToSpsr /\ MsrModeBefore # MODE_USR)
    /\ (obs.op = "cycle" /\ get_mode(obs.pre) = MODE_USR) => get_mode(cpu) = MODE_USR

\* an MSR to CPSR with field-mask bit 0 ran in USR mode with an operand
\* naming another mode, and a privileged one changed the mode
C25_WitnessUserMsrKeepsMode ==
    /\ MsrBefore
    /\ ~MsrToSpsr
    /\ MsrModeBefore = MODE_USR
    /\ Bit(WordBefore.v, 16)
    /\ FieldVal(MsrOperand, 0, 5) = MODE_SYS
    /\ err = ""
    /\ get_mode(obs.origin) = MODE_SVC

C25_WitnessPrivilegedMsrChangesMode ==
    ModeChanged /\ MsrBefore /\ get_mode(cpu) = MODE_SYS

\* the run that reaches the invalid-mode error: the field holds 0x14
InvalidModeNeverRaised == ~(err = "Invalid mode" /\ get_mode(cpu) = 20)

----------------------------------------------------------------------------
(* A Thumb step at the end of a mapped range *)

\* where the instruction is: 0x06FFFFFE (the last halfword of the VRAM
\* row), 0x040003FC (the last whole halfword of the I/O row), 0x02000040
\* and 0x03000000 (inside work RAM)
EdgeAt == {<<1791, 65534>>, <<1024, 1020>>, <<512, 64>>, <<768, 0>>}

\* 2005 MOV R0, #5; 0008 LSL R0, R1, #0; 0848 LSR R0, R1, #1;
\* 1C48 ADD R0, R1, #1; 3001 ADD R0, #1; 2800 CMP R0, #0;
\* F000 the BL/BLX prefix; 4770 BX LR
EdgeHalves == {8197, 8, 2120, 7240, 12289, 10240, 61440, 18288}

EdgeCpu(mode, at) ==
    Let(set_thumb_state(set_mode(CPU_new, mode), TRUE), LAMBDA c0 :
        [c0 EXCEPT !.r = [i \in 0..15 |-> CASE i = 15 -> W(at[1], at[2])
                                            [] i = 1 -> W(0, 6)
                                            [] OTHER -> ZERO]])

EdgeInit ==
    \E at \in EdgeAt, half \in EdgeHalves, mode \in BranchModes, debug \in BOOLEAN :
        Start(EdgeCpu(mode, at), MemoryWith(W(at[1], at[2]), HalfBytes(half)), debug)

EdgeNext == Step

SpecEdge == EdgeInit /\ [][EdgeNext]_vars

\* the latest step started in Thumb state on a shift, add, subtract, move
\* or compare with an immediate or register operand: an instruction that
\* is no BL/BLX prefix and makes no data access
PlainThumbBefore ==
    /\ obs.op = "cycle"
    /\ Bit(obs.pre.cpsr, 5)
    /\ HalfBefore.err = ""
    /\ HalfBefore.v \div 8192 \in {0, 1}

\* the halfword after the instruction cannot be read
NextHalfUnreadable ==
    read_u16(obs.premem, WrappingAdd(obs.pre.r[15], U32(2))).err # ""

\* C26: a Thumb step whose instruction is not a BL/BLX prefix reads only the
\* instruction's own halfword during fetch and decode, so an instruction in
\* the last halfword of a mapped region executes without an unmapped-read
\* error.
C26_ThumbFetchOwnHalfword ==
    PlainThumbBefore => err # "Read from unmapped address"

\* what the step does at the end of a mapped range: it stops on the read
\* of the following halfword with nothing executed
ThumbStepReadsNextHalf ==
    (PlainThumbBefore /\ NextHalfUnreadable) =>
        /\ err = "Read from unmapped address"
        /\ ~obs.log.executed
        /\ cpu.r[0] = obs.pre.r[0]

\* with the following halfword readable the same instructions run
ThumbStepInsideRegion ==
    (PlainThumbBefore /\ ~NextHalfUnreadable) => err # "Read from unmapped address"

----------------------------------------------------------------------------
(* Writes that fail part of the way *)

\* the latest call was a write16 or write32 that ended in an error
WideWriteFailed == obs.op \in {"write_u16", "write_u32"} /\ err # ""

\* C27: a write16 or write32 that is reported as an error leaves every
\* memory byte unchanged, the bytes of its range before the failing byte
\* included.
C27_WritesAllOrNothing ==
    WideWriteFailed => mem = obs.premem

\* what holds: a failed write leaves the memory unchanged when its first
\* byte is the one that fails
FailedAtFirstByteKeepsMemory ==
    (WideWriteFailed /\ ~WritableMapped(obs.address))
        => mem = obs.premem

\* a write16 to 0x040003FE stores the low byte and fails on 0x040003FF
PartialWriteNeverSeen ==
    ~(/\ obs.op = "write_u16"
      /\ obs.address = W(1024, 1022)
      /\ err = "Write to unmapped address"
      /\ read_u8(mem, obs.address).v = FieldVal(obs.value, 0, 8)
      /\ read_u8(obs.premem, obs.address).v # FieldVal(obs.value, 0, 8))

----------------------------------------------------------------------------
(* The end-address assertion of load/store multiple *)

\* end_addr of the four addressing modes
LsmEnd ==
    ArchPlus(LsmBase,
             IF LsmUp THEN (IF LsmPre THEN 4 * LsmCount ELSE 4 * LsmCount - 4)
             ELSE (IF LsmPre THEN 0 - 4 ELSE 0))

\* the transfers the step made, in order
LsmTransfers == IF LsmLoad THEN obs.log.loads ELSE obs.log.stores

\* the last word position: the address of the last transfer, and for the
\* empty list the word before the start address
LsmLastPosition ==
    IF LsmTransfers # <<>> THEN Vec(LsmTransfers[Len(LsmTransfers)].address)
    ELSE ArchPlus(LsmStart, 0 - 4)

\* C28: the end-address assertion of load/store-multiple execution never
\* fails: for every addressing mode, base value and register list, the
\* empty list included, the last word position equals the end_addr of the
\* addressing mode.
C28_EndAddressAssertion ==
    /\ err # "assertion failed: left == right"
    /\ (LsmBefore /\ err = "") =>
           /\ Len(LsmTransfers) = LsmCount
           /\ LsmLastPosition = LsmEnd

\* an IncrementBefore transfer of two registers ran to its end
C28_WitnessIncrementBefore ==
    /\ LsmBefore
    /\ err = ""
    /\ LsmUp /\ LsmPre
    /\ LsmCount = 2

\* so did a DecrementBefore with the empty list from base 0, where
\* end_addr wraps to 0xFFFFFFFC
C28_WitnessEmptyListWraps ==
    /\ LsmBefore
    /\ err = ""
    /\ ~LsmUp /\ LsmPre
    /\ LsmCount = 0
    /\ LsmBase = Vec(ZERO)

----------------------------------------------------------------------------
(* Thumb shift by immediate *)

\* Rm: 0, 6, 0x80000001 and 0xFFFFFFFF
ShiftValues == {<<0, 0>>, <<0, 6>>, <<32768, 1>>, <<65535, 65535>>}

\* Thumb state at 0x02000040, R1 the operand, R0 the destination
ThumbShiftCpu(rm, carry) ==
    Let(WithFlags(set_thumb_state(CPU_new, TRUE), FALSE, FALSE, carry, FALSE), LAMBDA c0 :
        [c0 EXCEPT !.r = [i \in 0..15 |-> CASE i = 15 -> W(512, 64)
                                            [] i = 1 -> W(rm[1], rm[2])
                                            [] i = 0 -> W(4660, 22136)
                                            [] OTHER -> ZERO]])

\* the halfword 000 op imm5 001 000: LSL, LSR or ASR R0, R1, #imm
ThumbShiftInit ==
    \E typ \in 0..2, imm \in 0..31, rm \in ShiftValues, carry \in BOOLEAN, debug \in BOOLEAN :
        Start(ThumbShiftCpu(rm, carry),
              MemoryWith(W(512, 64), HalfBytes(typ * 2048 + imm * 64 + 8)),
              debug)

ThumbShiftNext == Step

SpecThumbShift == ThumbShiftInit /\ [][ThumbShiftNext]_vars

\* the latest step started in Thumb state on a shift by immediate
ThumbShiftBefore ==
    /\ obs.op = "cycle"
    /\ Bit(obs.pre.cpsr, 5)
    /\ HalfBefore.err = ""
    /\ HalfBefore.v \div 8192 = 0
    /\ (HalfBefore.v \div 2048) % 4 # 3

ThumbShiftType == (HalfBefore.v \div 2048) % 4
ThumbShiftImm == (HalfBefore.v \div 64) % 32
ThumbShiftRm == obs.pre.r[(HalfBefore.v \div 8) % 8]
ThumbShiftRd == cpu.r[HalfBefore.v % 8]

\* C29: every Thumb shift by immediate (LSL, LSR or ASR with an immediate
\* 0..31) decodes and executes without error; LSL with immediate 0, the
\* MOV Rd, Rm encoding, copies Rm to Rd, sets N and Z from the value and
\* leaves C unchanged.
C29_ThumbShiftImmediate ==
    ThumbShiftBefore =>
        /\ err = ""
        /\ (ThumbShiftType = 0 /\ ThumbShiftImm = 0) =>
               /\ ThumbShiftRd = ThumbShiftRm
               /\ get_negative_flag(cpu) = Bit(ThumbShiftRm, 31)
               /\ get_zero_flag(cpu) = (ThumbShiftRm = ZERO)
               /\ get_carry_flag(cpu) = get_carry_flag(obs.pre)

\* what holds: every shift but LSL #0 executes without error, and LSL by
\* 1..31 leaves Rm shifted left in Rd with the last bit shifted out in C
ThumbShiftsButLslZero ==
    (ThumbShiftBefore /\ ~(ThumbShiftType = 0 /\ ThumbShiftImm = 0)) =>
        /\ err = ""
        /\ ThumbShiftType = 0 =>
               /\ Vec(ThumbShiftRd) =
                      [i \in 0..31 |-> i >= ThumbShiftImm /\ Bit(ThumbShiftRm, (i + 32 - ThumbShiftImm) % 32)]
               /\ get_carry_flag(cpu) = Bit(ThumbShiftRm, 32 - ThumbShiftImm)

\* and LSL #0 stops in the evaluation of the operand with nothing written
ThumbLslZeroPanics ==
    (ThumbShiftBefore /\ ThumbShiftType = 0 /\ ThumbShiftImm = 0) =>
        /\ err = "Should be ShifterOperand::Register"
        /\ cpu.r[0] = obs.pre.r[0]

----------------------------------------------------------------------------
(* debugger.rs and the emulator loop of main.rs *)

\* Debugger::new
Debugger_new == [breakpoints |-> <<>>, running |-> FALSE, step_mode |-> FALSE]

add_breakpoint(d, address) == [d EXCEPT !.breakpoints = Append(@, address)]

should_break(d, c) ==
    d.step_mode \/ \E i \in 1..Len(d.breakpoints) : d.breakpoints[i] = c.r[15]

Digits == <<"0", "1", "2", "3", "4", "5", "6", "7", "8", "9", "a", "b", "c", "d", "e", "f">>
UpperDigits == <<"0", "1", "2", "3", "4", "5", "6", "7", "8", "9", "A", "B", "C", "D", "E", "F">>

\* char::to_digit(radix)
DigitOf(ch, radix) ==
    IF \E i \in 1..radix : Digits[i] = ch \/ UpperDigits[i] = ch
    THEN Some((CHOOSE i \in 1..radix : Digits[i] = ch \/ UpperDigits[i] = ch) - 1)
    ELSE None

\* the value of a sequence of digits, None when one is no digit
RECURSIVE DigitsValue(_, _, _)
DigitsValue(chars, radix, acc) ==
    IF chars = <<>> THEN Some(acc)
    ELSE IF DigitOf(Head(chars), radix) = None THEN None
    ELSE DigitsValue(Tail(chars), radix, acc * radix + DigitOf(Head(chars), radix)[1])

\* u32::from_str_radix on a word of at most seven characters: an optional
\* "+" and at least one digit
from_str_radix(chars, radix) ==
    Let(IF chars # <<>> /\ Head(chars) = "+" THEN Tail(chars) ELSE chars, LAMBDA digits :
        IF digits = <<>> THEN None ELSE DigitsValue(digits, radix, 0))

\* str::parse::<u32>
parse_u32(chars) == from_str_radix(chars, 10)

\* str::trim_start_matches("0x")
RECURSIVE trim_start_matches_0x(_)
trim_start_matches_0x(chars) ==
    IF Len(chars) >= 2 /\ chars[1] = "0" /\ chars[2] = "x"
    THEN trim_start_matches_0x(SubSeq(chars, 3, Len(chars)))
    ELSE chars

\* the longest loop of a command the model runs to its end
MaxBatch == 12

\* k calls of CPU::cycle, ending at the first that panics
RECURSIVE Cycles(_, _)
Cycles(s, k) == IF k = 0 \/ ~Ok(s) THEN s ELSE Cycles(cycle(s), k - 1)

\* Debugger::handle_command on the words of the command, the first a
\* string and the second a sequence of characters: the debugger and
\* machine after it, the number of iterations its loop has (batch), whether
\* the loop is longer than MaxBatch (cut) and whether the process exited.
\* `0..n-1` is a u32 subtraction.
handle_command(d, s, parts) ==
    LET out(d1, s1, batch, cut, exited) ==
            [debugger |-> d1, s |-> s1, batch |-> batch, cut |-> cut, exited |-> exited]
        name == IF Len(parts) = 0 THEN None ELSE Some(parts[1])
    IN  CASE name \in {Some("c"), Some("continue")} ->
                 out([d EXCEPT !.running = TRUE, !.step_mode = FALSE], s, ZERO, FALSE, FALSE)
          [] name \in {Some("s"), Some("step")} ->
                 Let(IF Len(parts) >= 2 THEN parse_u32(parts[2]) ELSE None, LAMBDA n :
                 Let([d EXCEPT !.running = TRUE, !.step_mode = TRUE], LAMBDA d1 :
                     IF n = None THEN out(d1, s, ZERO, FALSE, FALSE)
                     ELSE Let(CheckedSub(U32(n[1]), ONE), LAMBDA count :
                              IF s.build.debug /\ count.ovf
                              THEN out(d1, OverflowPanic(s, "subtract"), ZERO, FALSE, FALSE)
                              ELSE IF ULt(U32(MaxBatch), count.v)
                              THEN out(d1, Cycles(s, MaxBatch), count.v, TRUE, FALSE)
                              ELSE out(d1, Cycles(s, Lo16(count.v)), count.v, FALSE, FALSE))))
          [] name \in {Some("b"), Some("break")} ->
                 Let(IF Len(parts) >= 2 THEN from_str_radix(trim_start_matches_0x(parts[2]), 16)
                     ELSE None, LAMBDA addr :
                     IF addr = None THEN out(d, s, ZERO, FALSE, FALSE)
                     ELSE out(add_breakpoint(d, U32(addr[1])), s, ZERO, FALSE, FALSE))
          [] name \in {Some("q"), Some("quit")} -> out(d, s, ZERO, FALSE, TRUE)
          [] OTHER -> out(d, s, ZERO, FALSE, FALSE)

\* the iterations of the emulator loop explored from the start
MaxRounds == 3

\* BIOS images: MOV R0, #9; CMP R0, #0; B to 0, and a branch to itself
DebugPrograms ==
    { <<W(58272, 9), W(58192, 0), W(60159, 65532)>>,
      <<W(60159, 65534)>> }

\* the lines typed at the prompt, as the words split_whitespace gives
DebugCommands ==
    << <<"c">>, <<"continue">>, <<"s">>, <<"step", <<"0">>>>, <<"step", <<"1">>>>,
       <<"s", <<"2">>>>, <<"step", <<"3">>>>, <<"step", <<"+", "2">>>>,
       <<"step", <<"x">>>>, <<"b", <<"0", "x", "4">>>>, <<"break", <<"8">>>>,
       <<"p">>, <<"q">>, <<>> >>

DebugInit ==
    \E prog \in DebugPrograms, debug \in BOOLEAN :
        /\ cpu = CPU_new
        /\ mem = Memory_new(Image(prog), <<>>)
        /\ err = ""
        /\ build = [debug |-> debug]
        /\ obs = [op |-> "new", steps |-> 0, debugger |-> Debugger_new, parts |-> <<>>,
                  batch |-> ZERO, cut |-> FALSE, exited |-> FALSE, since |-> 0]

LoopGoesOn == err = "" /\ ~obs.cut /\ ~obs.exited /\ obs.steps < MaxRounds

\* main.rs:49: the prompt is shown in this iteration
PromptIsNext == ~obs.debugger.running \/ should_break(obs.debugger, cpu)

\* an iteration of the loop of main.rs that shows the prompt: a line is
\* read and handled, and one instruction runs when the debugger is running
\* after it.  obs.since is the cycle count the iteration started with.
PromptIteration ==
    /\ LoopGoesOn
    /\ PromptIsNext
    /\ \E i \in 1..Len(DebugCommands) :
          Let(handle_command([obs.debugger EXCEPT !.running = FALSE], Machine, DebugCommands[i]),
              LAMBDA h :
          Let(IF Ok(h.s) /\ ~h.cut /\ ~h.exited /\ h.debugger.running THEN cycle(h.s) ELSE h.s,
              LAMBDA s :
              /\ cpu' = s.cpu
              /\ mem' = s.mem
              /\ err' = s.err
              /\ obs' = [op |-> "prompt", steps |-> obs.steps + 1, debugger |-> h.debugger,
                         parts |-> DebugCommands[i], batch |-> h.batch, cut |-> h.cut,
                         exited |-> h.exited, since |-> cpu.cycles]))
    /\ UNCHANGED build

\* an iteration that shows no prompt: one instruction runs
RunIteration ==
    /\ LoopGoesOn
    /\ ~PromptIsNext
    /\ Let(cycle(Machine), LAMBDA s :
           /\ cpu' = s.cpu
           /\ mem' = s.mem
           /\ err' = s.err
           /\ obs' = [obs EXCEPT !.op = "run", !.steps = @ + 1])
    /\ UNCHANGED build

DebugNext == PromptIteration \/ RunIteration

SpecDebugger == DebugInit /\ [][DebugNext]_vars

\* the latest line handled
LastName == IF Len(obs.parts) = 0 THEN "" ELSE obs.parts[1]
LastIsStep == LastName \in {"s", "step"}
LastIsContinue == LastName \in {"c", "continue"}

\* the n of `step n`, None without an argument that parses
StepArgument == IF Len(obs.parts) >= 2 THEN parse_u32(obs.parts[2]) ELSE None

\* instructions executed since the prompt was last shown: every
\* instruction of DebugPrograms executes and adds 2 to the cycle count
ExecutedSincePrompt == (cpu.cycles - obs.since) \div 2

\* the emulator is back at the prompt
BackAtPrompt == err = "" /\ ~obs.cut /\ ~obs.exited /\ PromptIsNext

\* C30: `step n` executes exactly n instructions before the prompt is
\* shown again, for every n >= 0 that parses as an unsigned integer; `step`
\* with no argument executes exactly one; `continue` clears step mode, so
\* that execution then stops only at a breakpoint address.
C30_DebuggerStepping ==
    /\ (obs.op = "prompt" /\ LastIsStep /\ StepArgument # None) =>
           BackAtPrompt /\ ExecutedSincePrompt = StepArgument[1]
    /\ (obs.op = "prompt" /\ LastIsStep /\ StepArgument = None) =>
           BackAtPrompt /\ ExecutedSincePrompt = 1
    /\ (obs.op \in {"prompt", "run"} /\ LastIsContinue) =>
           /\ ~obs.debugger.step_mode
           /\ (BackAtPrompt =>
                   \E i \in 1..Len(obs.debugger.breakpoints) :
                       obs.debugger.breakpoints[i] = cpu.r[15])

\* what holds: the same with `step n` for n >= 1
SteppingButStepZero ==
    /\ (obs.op = "prompt" /\ LastIsStep /\ StepArgument # None /\ StepArgument # Some(0)) =>
           BackAtPrompt /\ ExecutedSincePrompt = StepArgument[1]
    /\ (obs.op = "prompt" /\ LastIsStep /\ StepArgument = None) =>
           BackAtPrompt /\ ExecutedSincePrompt = 1
    /\ (obs.op \in {"prompt", "run"} /\ LastIsContinue) =>
           /\ ~obs.debugger.step_mode
           /\ (BackAtPrompt =>
                   \E i \in 1..Len(obs.debugger.breakpoints) :
                       obs.debugger.breakpoints[i] = cpu.r[15])

\* and `step 0`: the subtraction of `0..n-1` panics with overflow checks,
\* and without them the loop of the command has 0xFFFFFFFF iterations
StepZero ==
    (obs.op = "prompt" /\ LastIsStep /\ StepArgument = Some(0)) =>
        IF build.debug THEN err = "attempt to subtract with overflow"
        ELSE obs.cut /\ obs.batch = ALL_ONES

\* a run stopped at a breakpoint after `continue`, two instructions on
StoppedAtBreakpoint ==
    /\ obs.op = "run"
    /\ LastIsContinue
    /\ BackAtPrompt
    /\ ExecutedSincePrompt = 2

====
